---- MODULE Spec2Model ----
(***************************************************************************)
(* A model of the lawa toolchain: the sama emulator (sama/src/emulator.rs,  *)
(* sama/src/devices.rs), the poki object codec (poki/src/lib.rs) and the    *)
(* pali assembler (pali/src/assemble.rs).                                   *)
(***************************************************************************)
EXTENDS Integers, Sequences, FiniteSets, TLC

VARIABLES
    program_counter,            \* Emulator.program_counter : u16
    privileged,                 \* Emulator.privileged : bool
    registers,                  \* Emulator.registers.0 : [u16; 32], the raw array
    control_status_registers,   \* Emulator.control_status_registers
    devices,                    \* Emulator.devices : the indices of the occupied slots
    ram,                        \* Emulator.ram, as the words that differ from 0
    channel,                    \* the crossbeam channel behind interrupt_sender/receiver
    interrupt_mask,             \* InterruptHandle.interrupt_mask : Arc<RwLock<[u16; 16]>>
    handles,                    \* each device thread's position inside try_interrupt
    cpu,                        \* the stepping thread's position inside step()
    panicked,                   \* a panic has unwound out of the emulator
    overflow_checks,            \* the build profile: debug (TRUE) or release (FALSE)
    device_calls,               \* the Device::input / Device::output calls made so far
    last_step,                  \* the path the last completed step() took
    steps,                      \* number of step() calls completed
    attempts,                   \* number of try_interrupt calls started
    host_writes,                \* number of host accessor calls made
    host_access,                \* the last call of the host accessor of the CSRs
    poki,                       \* the Poki handed to Poki::serialize
    big_endian,                 \* the byte order of the host (to_ne_bytes / from_ne_bytes)
    stream,                     \* the bytes the writer has received
    read_limit,                 \* the most bytes one Read::read call of the reader returns
    written,                    \* the result of Poki::serialize
    decoded,                    \* the result of Poki::deserialize
    codec,                      \* "new", then "written", then "read"
    program,                    \* Assembler.program : the parsed Program
    assembled,                  \* the result of Assembler::assemble
    reassembled,                \* the result of assembling the same source again
    assembler,                  \* "new", then "done", then "again"
    source,                     \* Lexer.source
    unlexed,                    \* Lexer.unlexed
    lexer_index,                \* Lexer.index
    errored,                    \* Lexer.errored
    yielded                     \* what the calls of Lexer::next returned, in order

samaVars == <<program_counter, privileged, registers, control_status_registers,
              devices, ram, channel, interrupt_mask, handles, cpu, panicked,
              overflow_checks, device_calls, last_step, steps, attempts, host_writes,
              host_access>>

pokiVars == <<poki, big_endian, stream, read_limit, written, decoded, codec>>

paliVars == <<program, assembled, reassembled, assembler>>

\* the state outside the emulator, its devices and its host
lexVars == <<source, unlexed, lexer_index, errored, yielded>>

nonSamaVars == <<pokiVars, paliVars, lexVars>>

vars == <<samaVars, pokiVars, paliVars, lexVars>>

-----------------------------------------------------------------------------
(* Bounds of the model                                                      *)

MaxSteps == 2
MaxAttempts == 2
MaxHostWrites == 1

-----------------------------------------------------------------------------
(* 16-bit words                                                             *)

WordModulus == 65536

Wrap(n) == n % WordModulus

WrappingAdd(a, b) == Wrap(a + b)

\* WrappingSub stopping at 0 (u16::saturating_sub)
SaturatingSub(a, b) == IF a >= b THEN a - b ELSE 0

WrappingSub(a, b) == Wrap(a - b + WordModulus)

WrappingNeg(a) == Wrap(WordModulus - a)

\* (x as i16).is_positive(): strictly greater than zero as a signed value
IsPositive(x) == x > 0 /\ x < 32768

\* x as i16, as an integer
AsSigned(x) == IF x >= 32768 THEN x - WordModulus ELSE x

RECURSIVE BitAnd(_, _)
BitAnd(a, b) ==
    IF a = 0 \/ b = 0 THEN 0
    ELSE (a % 2) * (b % 2) + 2 * BitAnd(a \div 2, b \div 2)

RECURSIVE BitOr(_, _)
BitOr(a, b) ==
    IF a = 0 THEN b
    ELSE IF b = 0 THEN a
    ELSE (IF a % 2 = 1 \/ b % 2 = 1 THEN 1 ELSE 0) + 2 * BitOr(a \div 2, b \div 2)

RECURSIVE BitXor(_, _)
BitXor(a, b) ==
    IF a = 0 THEN b
    ELSE IF b = 0 THEN a
    ELSE ((a + b) % 2) + 2 * BitXor(a \div 2, b \div 2)

\* u16 << n and u16 >> n for an in-range amount n < 16
Shl(x, n) == Wrap(x * 2^n)

Shr(x, n) == x \div 2^n

\* ((x as i16) >> n) as u16 for n < 16: the sign bit fills the vacated bits
Sar(x, n) == IF x >= 32768 THEN (x \div 2^n) + (WordModulus - 2^(16 - n)) ELSE x \div 2^n

\* u16::from_le_bytes([lo, hi])
FromLeBytes(lo, hi) == lo + 256 * hi

\* u16::to_be_bytes(x)[0] and [1]
HighByte(x) == x \div 256

LowByte(x) == x % 256

-----------------------------------------------------------------------------
(* poki: the object file and its codec (poki/src/lib.rs)                    *)

\* A String is the sequence of its Unicode scalar values.

\* str::encode_utf16: one unit for a scalar value below 0x10000, a surrogate
\* pair for the others
RECURSIVE EncodeUtf16(_)
EncodeUtf16(str) ==
    IF str = <<>> THEN <<>>
    ELSE LET c == Head(str)
         IN  (IF c < 65536 THEN <<c>>
              ELSE <<55296 + ((c - 65536) \div 1024), 56320 + ((c - 65536) % 1024)>>)
             \o EncodeUtf16(Tail(str))

\* the ? operator: an Err is returned to the caller, an Ok goes on
Try(result, Continue(_)) == IF result.ok THEN Continue(result) ELSE result

\* String::from_utf16: an unpaired surrogate is a FromUtf16Error
RECURSIVE FromUtf16(_)
FromUtf16(units) ==
    IF units = <<>> THEN [ok |-> TRUE, value |-> <<>>]
    ELSE IF Head(units) < 55296 \/ Head(units) > 57343
    THEN Try(FromUtf16(Tail(units)),
             LAMBDA rest : [ok |-> TRUE, value |-> <<Head(units)>> \o rest.value])
    ELSE IF /\ Head(units) <= 56319
            /\ Len(units) >= 2
            /\ units[2] >= 56320
            /\ units[2] <= 57343
    THEN Try(FromUtf16(Tail(Tail(units))),
             LAMBDA rest :
                 [ok |-> TRUE,
                  value |-> <<65536 + (Head(units) - 55296) * 1024 + (units[2] - 56320)>>
                            \o rest.value])
    ELSE [ok |-> FALSE, error |-> "FromUtf16Error"]

\* "poki".encode_utf16()
Magic == EncodeUtf16(<<112, 111, 107, 105>>)

EmptySegment == [contents |-> <<>>, relocation_table |-> <<>>, export_table |-> <<>>]

\* Poki::new_empty
new_empty == [segments |-> [i \in 1..8 |-> EmptySegment], unresolved_table |-> <<>>]

\* u16::to_ne_bytes
ToNeBytes(word) ==
    IF big_endian THEN <<word \div 256, word % 256>> ELSE <<word % 256, word \div 256>>

\* u16::from_ne_bytes
FromNeBytes(b1, b2) == IF big_endian THEN 256 * b1 + b2 ELSE b1 + 256 * b2

\* WriteWordsExt::write_all_words: the bytes of a slice of words
RECURSIVE WordsToBytes(_)
WordsToBytes(words) ==
    IF words = <<>> THEN <<>> ELSE ToNeBytes(Head(words)) \o WordsToBytes(Tail(words))

\* u16::try_from(n) followed by the write of the words: a chunk of output, or
\* the error the conversion maps to
Sized(n, error, words) ==
    IF n <= 65535 THEN [ok |-> TRUE, words |-> words] ELSE [ok |-> FALSE, error |-> error]

\* ExportTableEntry::len counting characters instead of UTF-16 code units
ExportTableEntryLenChars(entry) == 1 + Len(entry.label) + 1

\* ExportTableEntry::len
ExportTableEntryLen(entry) == 1 + Len(EncodeUtf16(entry.label)) + 1

RECURSIVE ExportTableLen(_)
ExportTableLen(table) ==
    IF table = <<>> THEN 0 ELSE ExportTableEntryLen(Head(table)) + ExportTableLen(Tail(table))

\* Segment::serialize_header: three sized writes
SerializeHeader(segment) ==
    << Sized(Len(segment.contents), "OversizedSegmentContents", <<Len(segment.contents)>>),
       Sized(3 * Len(segment.relocation_table), "OversizedRelocationTable",
             <<3 * Len(segment.relocation_table)>>),
       Sized(ExportTableLen(segment.export_table), "OversizedExportTable",
             <<ExportTableLen(segment.export_table)>>) >>

\* RelocationTableEntry::serialize
SerializeRelocation(entry) ==
    [ok |-> TRUE, words |-> <<entry.offset, entry.segment_index, entry.segment_offset>>]

\* ExportTableEntry::serialize
SerializeExport(entry) ==
    Sized(Len(EncodeUtf16(entry.label)), "OversizedLabel",
          <<Len(EncodeUtf16(entry.label))>> \o EncodeUtf16(entry.label) \o <<entry.offset>>)

\* the unresolved-table loop of Poki::serialize, for one symbol
SerializeUnresolved(symbol) ==
    Sized(Len(EncodeUtf16(symbol)), "OversizedLabel",
          <<Len(EncodeUtf16(symbol))>> \o EncodeUtf16(symbol))

\* Segment::serialize
SerializeSegment(segment) ==
    <<[ok |-> TRUE, words |-> segment.contents]>>
    \o [i \in 1..Len(segment.relocation_table) |->
            SerializeRelocation(segment.relocation_table[i])]
    \o [i \in 1..Len(segment.export_table) |-> SerializeExport(segment.export_table[i])]

RECURSIVE Flatten(_)
Flatten(seqs) == IF seqs = <<>> THEN <<>> ELSE Head(seqs) \o Flatten(Tail(seqs))

\* the writes Poki::serialize attempts, in order
SerializeWrites(p) ==
    <<[ok |-> TRUE, words |-> Magic]>>
    \o Flatten([i \in 1..8 |-> SerializeHeader(p.segments[i])])
    \o Flatten([i \in 1..8 |-> SerializeSegment(p.segments[i])])
    \o [i \in 1..Len(p.unresolved_table) |-> SerializeUnresolved(p.unresolved_table[i])]

\* the writes are made until the first one that fails (the ? operator)
RECURSIVE WriteAll(_)
WriteAll(writes) ==
    IF writes = <<>> THEN [ok |-> TRUE, bytes |-> <<>>]
    ELSE IF ~Head(writes).ok THEN [ok |-> FALSE, error |-> Head(writes).error, bytes |-> <<>>]
    ELSE LET rest == WriteAll(Tail(writes))
         IN  [rest EXCEPT !.bytes = WordsToBytes(Head(writes).words) \o @]

\* Poki::serialize
serialize(p) == WriteAll(SerializeWrites(p))

\* ReadWordsExt::read_word: read_exact of two bytes at position pos
read_word(bytes, pos) ==
    IF pos + 2 <= Len(bytes)
    THEN [ok |-> TRUE, word |-> FromNeBytes(bytes[pos + 1], bytes[pos + 2]), pos |-> pos + 2]
    ELSE [ok |-> FALSE, error |-> "IOError"]

\* n calls of read_word in a row, stopping at the first error
RECURSIVE ReadWordsN(_, _, _)
ReadWordsN(bytes, pos, n) ==
    IF n = 0 THEN [ok |-> TRUE, words |-> <<>>, pos |-> pos]
    ELSE Try(read_word(bytes, pos), LAMBDA first :
         Try(ReadWordsN(bytes, first.pos, n - 1), LAMBDA rest :
             [ok |-> TRUE, words |-> <<first.word>> \o rest.words, pos |-> rest.pos]))

\* ReadWordsExt::read_words on a buffer of one word: one Read::read call, which
\* returns at most read_limit bytes; the count returned is bytes / 2
read_words(bytes, pos) ==
    LET n == IF Len(bytes) - pos < 2
             THEN (IF Len(bytes) - pos < read_limit THEN Len(bytes) - pos ELSE read_limit)
             ELSE (IF read_limit < 2 THEN read_limit ELSE 2)
    IN  [count |-> n \div 2,
         word |-> IF n = 2 THEN FromNeBytes(bytes[pos + 1], bytes[pos + 2]) ELSE 0,
         pos |-> pos + n]

\* SegmentHeader::deserialize
DeserializeHeader(bytes, pos) ==
    Try(ReadWordsN(bytes, pos, 3), LAMBDA r :
        [ok |-> TRUE, pos |-> r.pos,
         header |-> [contents_size |-> r.words[1],
                     relocation_table_size |-> r.words[2],
                     export_table_size |-> r.words[3]]])

RECURSIVE DeserializeHeaders(_, _, _)
DeserializeHeaders(bytes, pos, n) ==
    IF n = 0 THEN [ok |-> TRUE, pos |-> pos, headers |-> <<>>]
    ELSE Try(DeserializeHeader(bytes, pos), LAMBDA first :
         Try(DeserializeHeaders(bytes, first.pos, n - 1), LAMBDA rest :
             [ok |-> TRUE, pos |-> rest.pos, headers |-> <<first.header>> \o rest.headers]))

\* the relocation entries made of the words read, three by three
RECURSIVE RelocationEntries(_)
RelocationEntries(words) ==
    IF words = <<>> THEN <<>>
    ELSE <<[offset |-> words[1], segment_index |-> words[2], segment_offset |-> words[3]]>>
         \o RelocationEntries(SubSeq(words, 4, Len(words)))

\* label_size + 2 in u16: a panic when overflow checks are compiled in, the
\* wrapped sum otherwise
LabelSizePlusTwo(label_size, checks) ==
    IF label_size + 2 > 65535 /\ checks THEN [ok |-> FALSE, error |-> "panic"]
    ELSE [ok |-> TRUE, value |-> (label_size + 2) % 65536]

\* the export-table loop of Segment::deserialize
RECURSIVE DeserializeExports(_, _, _, _)
DeserializeExports(bytes, pos, remaining, checks) ==
    IF remaining = 0 THEN [ok |-> TRUE, pos |-> pos, export_table |-> <<>>]
    ELSE Try(read_word(bytes, pos), LAMBDA size :
         Try(LabelSizePlusTwo(size.word, checks), LAMBDA sum :
             IF sum.value > remaining THEN [ok |-> FALSE, error |-> "StringOverrun"]
             ELSE Try(ReadWordsN(bytes, size.pos, size.word), LAMBDA label :
                  Try(FromUtf16(label.words), LAMBDA str :
                  Try(read_word(bytes, label.pos), LAMBDA offset :
                  Try(DeserializeExports(bytes, offset.pos, remaining - sum.value, checks),
                      LAMBDA rest :
                          [ok |-> TRUE, pos |-> rest.pos,
                           export_table |-> <<[label |-> str.value, offset |-> offset.word]>>
                                            \o rest.export_table]))))))

\* Segment::deserialize
DeserializeSegment(bytes, pos, header, checks) ==
    Try(ReadWordsN(bytes, pos, header.contents_size), LAMBDA contents :
        IF header.relocation_table_size % 3 # 0
        THEN [ok |-> FALSE, error |-> "InvalidRelocationTableSize"]
        ELSE Try(ReadWordsN(bytes, contents.pos, 3 * (header.relocation_table_size \div 3)),
                 LAMBDA relocations :
             Try(DeserializeExports(bytes, relocations.pos, header.export_table_size, checks),
                 LAMBDA exports :
                 [ok |-> TRUE, pos |-> exports.pos,
                  segment |-> [contents |-> contents.words,
                               relocation_table |-> RelocationEntries(relocations.words),
                               export_table |-> exports.export_table]])))

RECURSIVE DeserializeSegments(_, _, _, _)
DeserializeSegments(bytes, pos, headers, checks) ==
    IF headers = <<>> THEN [ok |-> TRUE, pos |-> pos, segments |-> <<>>]
    ELSE Try(DeserializeSegment(bytes, pos, Head(headers), checks), LAMBDA first :
         Try(DeserializeSegments(bytes, first.pos, Tail(headers), checks), LAMBDA rest :
             [ok |-> TRUE, pos |-> rest.pos, segments |-> <<first.segment>> \o rest.segments]))

\* one turn of the unresolved-table loop of Poki::deserialize after a label size
\* was read
RECURSIVE DeserializeUnresolved(_, _)
UnresolvedEntry(bytes, size) ==
    Try(ReadWordsN(bytes, size.pos, size.word), LAMBDA label :
    Try(FromUtf16(label.words), LAMBDA str :
    Try(DeserializeUnresolved(bytes, label.pos), LAMBDA rest :
        [ok |-> TRUE, unresolved_table |-> <<str.value>> \o rest.unresolved_table])))

\* the unresolved-table loop of Poki::deserialize: it ends when read_words
\* returns no word
DeserializeUnresolved(bytes, pos) ==
    IF read_words(bytes, pos).count = 0
    THEN [ok |-> TRUE, unresolved_table |-> <<>>]
    ELSE UnresolvedEntry(bytes, read_words(bytes, pos))

\* Poki::deserialize
deserialize(bytes, checks) ==
    Try(ReadWordsN(bytes, 0, 4), LAMBDA magic_buffer :
        IF magic_buffer.words # Magic THEN [ok |-> FALSE, error |-> "InvalidMagic"]
        ELSE Try(DeserializeHeaders(bytes, magic_buffer.pos, 8), LAMBDA headers :
             Try(DeserializeSegments(bytes, headers.pos, headers.headers, checks),
                 LAMBDA segments :
             Try(DeserializeUnresolved(bytes, segments.pos), LAMBDA unresolved :
                 [ok |-> TRUE,
                  value |-> [segments |-> segments.segments,
                             unresolved_table |-> unresolved.unresolved_table]]))))

\* the codec before any call
IdleCodec ==
    /\ poki = new_empty
    /\ big_endian = FALSE
    /\ stream = <<>>
    /\ read_limit = 2
    /\ written = "none"
    /\ decoded = [ok |-> FALSE, error |-> "none"]
    /\ codec = "new"

\* the assembler before any program is parsed
EmptyProgram == [exports |-> <<>>, segments |-> [k \in 1..8 |-> <<>>]]

IdleAssembler ==
    /\ program = EmptyProgram
    /\ assembled = [ok |-> FALSE, error |-> "none"]
    /\ reassembled = [ok |-> FALSE, error |-> "none"]
    /\ assembler = "new"

\* the lexer of an empty source
IdleLexer ==
    /\ source = <<>>
    /\ unlexed = <<>>
    /\ lexer_index = 0
    /\ errored = FALSE
    /\ yielded = <<>>

-----------------------------------------------------------------------------
(* sama: register files and memory (sama/src/emulator.rs)                   *)

\* Registers: Index<u16>. Index 0 reads as the constant 0.
RegistersIndex(regs, index) == IF index = 0 THEN 0 ELSE regs[index]

\* Registers: IndexMut<u16>. The place written is the raw array slot.
RegistersIndexMut(regs, index, value) == [regs EXCEPT ![index] = value]

\* Ram: Index<u16>. A word never written holds 0 (Ram::default).
RamIndex(mem, index) == IF index \in DOMAIN mem THEN mem[index] ELSE 0

\* Ram: IndexMut<u16>
RamIndexMut(mem, index, value) ==
    IF value = 0 THEN [a \in (DOMAIN mem) \ {index} |-> mem[a]]
    ELSE [a \in (DOMAIN mem) \cup {index} |-> IF a = index THEN value ELSE mem[a]]

\* ReservedCsrs without the last reserved index
ReservedCsrsButLast == {19, 20}

ReservedCsrs == {19, 20, 21}

\* ControlStatusRegisters: Index<u16>, for an index that does not panic
CsrIndex(csr, index) ==
    IF index <= 15 THEN csr.im[index]
    ELSE IF index = 16 THEN csr.iv
    ELSE IF index = 17 THEN csr.ipc
    ELSE IF index = 18 THEN csr.ic
    ELSE IF index <= 23 THEN csr.mpc[index % 2]
    ELSE csr.mpa[index % 8]

\* CsrIndexMut addressing MPA by the two low bits of the index
CsrIndexMutAliased(csr, index, value) ==
    IF index <= 15 THEN [csr EXCEPT !.im[index] = value]
    ELSE IF index = 16 THEN [csr EXCEPT !.iv = value]
    ELSE IF index = 17 THEN [csr EXCEPT !.ipc = value]
    ELSE IF index = 18 THEN [csr EXCEPT !.ic = value]
    ELSE IF index <= 23 THEN [csr EXCEPT !.mpc[index % 2] = value]
    ELSE [csr EXCEPT !.mpa[index % 4] = value]

\* ControlStatusRegisters: IndexMut<u16>, for an index that does not panic
CsrIndexMut(csr, index, value) ==
    IF index <= 15 THEN [csr EXCEPT !.im[index] = value]
    ELSE IF index = 16 THEN [csr EXCEPT !.iv = value]
    ELSE IF index = 17 THEN [csr EXCEPT !.ipc = value]
    ELSE IF index = 18 THEN [csr EXCEPT !.ic = value]
    ELSE IF index <= 23 THEN [csr EXCEPT !.mpc[index % 2] = value]
    ELSE [csr EXCEPT !.mpa[index % 8] = value]

\* ControlStatusRegisters::default()
DefaultCsr ==
    [im |-> [i \in 0..15 |-> 0], iv |-> 0, ipc |-> 0, ic |-> 0,
     mpc |-> [i \in 0..1 |-> 0], mpa |-> [i \in 0..7 |-> 0]]

\* readable granting no address
readable_nowhere(index) == FALSE

\* the memory-protection predicates
readable(index) == TRUE

writable(index) == TRUE

executable(index) == TRUE

\* the capacity of the interrupt channel: channel::bounded(1)
ChannelCapacity == 1

\* Receiver::is_full
IsFull(ch) == Len(ch) = ChannelCapacity

\* TrySend without the capacity test
TrySendUnbounded(ch, word) == Append(ch, word)

\* TrySend replacing the pending word when the channel is full
TrySendOverwrite(ch, word) == <<word>>

\* Sender::try_send: the channel afterwards; a full channel is left as it is
TrySend(ch, word) == IF Len(ch) < ChannelCapacity THEN Append(ch, word) ELSE ch

\* Sender::try_send: whether the word was accepted
TrySendOk(ch) == Len(ch) < ChannelCapacity

\* InterruptWord with the two bytes in the other order
InterruptWordSwapped(device_index, interrupt_context) ==
    FromLeBytes(interrupt_context, device_index)

\* the word a device sends: u16::from_le_bytes([device_index, interrupt_context])
InterruptWord(device_index, interrupt_context) ==
    FromLeBytes(device_index, interrupt_context)

\* InterruptMasked without the test of the global bit
InterruptMaskedDeviceOnly(mask, device_index) ==
    BitAnd(mask[device_index \div 16], 2^(device_index % 16)) # 0

\* the mask test of try_interrupt on the table the handle holds
InterruptMasked(mask, device_index) ==
    \/ BitAnd(mask[0], 1) # 0
    \/ BitAnd(mask[device_index \div 16], 2^(device_index % 16)) # 0

-----------------------------------------------------------------------------
(* sama: instruction fetch and decode (Emulator::step, first part)          *)

instr == RamIndex(ram, program_counter)

opc == instr % 64

src_idx == instr \div 2048

src == RegistersIndex(registers, src_idx)

dst_idx == (instr \div 64) % 32

dst == RegistersIndex(registers, dst_idx)

takes_imm == ((opc \div 8) % 2 = 1) /\ opc # 41

imm == IF takes_imm THEN RamIndex(ram, WrappingAdd(program_counter, 1)) ELSE 0

\* instruction_length taking bit 4 of the opcode for the immediate bit
instruction_length_by_bit_4 == IF (opc \div 16) % 2 = 1 THEN 2 ELSE 1

instruction_length == IF takes_imm THEN 2 ELSE 1

Opcode ==
    [add |-> 0, sub |-> 1, and |-> 2, or |-> 3, xor |-> 4, sll |-> 5, srl |-> 6,
     sra |-> 7, addi |-> 8, andi |-> 10, ori |-> 11, xori |-> 12, slli |-> 13,
     srai |-> 15, ld |-> 16, st |-> 17, dei |-> 18, deo |-> 19, rcsr |-> 20,
     wcsr |-> 21, swpr |-> 22, ldio |-> 24, stio |-> 25, jal |-> 40, jsh |-> 41,
     beq |-> 42, bne |-> 43, blt |-> 44, bge |-> 45, bltu |-> 46, bgeu |-> 47]

DefinedOpcodes == {Opcode[k] : k \in DOMAIN Opcode}

-----------------------------------------------------------------------------
(* sama: Emulator::software_interrupt and the ways step() returns           *)

NoStep == [kind |-> "none", opc |-> 0, pc |-> 0, context |-> 0, length |-> 0]

\* the host has not called the accessor of the control/status registers;
\* `wrote' is the number of steps taken when the host last wrote a CSR
NoAccess == [call |-> "none", index |-> 0, value |-> 0, result |-> "none", wrote |-> -1]

\* the record of a step that returned through `kind'
Return(kind) ==
    last_step' = [kind |-> kind, opc |-> opc, pc |-> program_counter,
                  context |-> 0, length |-> instruction_length]

\* software_interrupt that saves the address of the faulting instruction itself
software_interrupt_no_length(context, length) ==
    /\ control_status_registers' =
           [control_status_registers EXCEPT
               !.im[0] = BitOr(@, 1),
               !.ipc = program_counter,
               !.ic = FromLeBytes(0, context)]
    /\ program_counter' = control_status_registers.iv
    /\ privileged' = TRUE
    /\ last_step' = [kind |-> "software_interrupt", opc |-> opc, pc |-> program_counter,
                     context |-> context, length |-> length]

software_interrupt(context, length) ==
    /\ control_status_registers' =
           [control_status_registers EXCEPT
               !.im[0] = BitOr(@, 1),
               !.ipc = WrappingAdd(program_counter, length),
               !.ic = FromLeBytes(0, context)]
    /\ program_counter' = control_status_registers.iv
    /\ privileged' = TRUE
    /\ last_step' = [kind |-> "software_interrupt", opc |-> opc, pc |-> program_counter,
                     context |-> context, length |-> length]

\* `self.software_interrupt(..); return;' inside the match
RaiseAndReturn(context, length) ==
    /\ software_interrupt(context, length)
    /\ UNCHANGED <<registers, ram, device_calls, panicked>>

\* AdvancePc stepping over one word whatever the instruction
AdvancePcOneWord == program_counter' = WrappingAdd(program_counter, 1)

\* the advance of the program counter at the end of step()
AdvancePc == program_counter' = WrappingAdd(program_counter, instruction_length)

\* an arm that falls through to the end of step()
Complete(newRegisters, newRam, newCalls) ==
    /\ registers' = newRegisters
    /\ ram' = newRam
    /\ device_calls' = newCalls
    /\ AdvancePc
    /\ Return("executed")
    /\ UNCHANGED <<privileged, control_status_registers, panicked>>

\* an arm that sets the program counter itself and returns
JumpTo(target, newRegisters) ==
    /\ registers' = newRegisters
    /\ program_counter' = target
    /\ Return("jump")
    /\ UNCHANGED <<privileged, control_status_registers, ram, device_calls, panicked>>

\* a panic unwinds out of step() before anything was written
Panic ==
    /\ panicked' = TRUE
    /\ Return("panic")
    /\ UNCHANGED <<program_counter, privileged, registers, control_status_registers,
                   ram, device_calls>>

SetRegister(value) == Complete(RegistersIndexMut(registers, dst_idx, value), ram, device_calls)

\* a shift by `amount': an amount of 16 or more panics when overflow checks are
\* compiled in, and is taken modulo 16 otherwise
ShiftOverflows(amount) == amount >= 16 /\ overflow_checks

-----------------------------------------------------------------------------
(* sama: the arms of the match in Emulator::step                            *)

op_add == opc = Opcode.add /\ SetRegister(WrappingAdd(dst, src))

op_sub == opc = Opcode.sub /\ SetRegister(WrappingSub(dst, src))

op_and == opc = Opcode.and /\ SetRegister(BitAnd(registers[dst_idx], src))

op_or == opc = Opcode.or /\ SetRegister(BitOr(registers[dst_idx], src))

op_xor == opc = Opcode.xor /\ SetRegister(BitXor(registers[dst_idx], src))

op_sll ==
    /\ opc = Opcode.sll
    /\ IF IsPositive(src)
       THEN IF ShiftOverflows(src) THEN Panic
            ELSE SetRegister(Shl(registers[dst_idx], src % 16))
       ELSE IF ShiftOverflows(WrappingNeg(src)) THEN Panic
            ELSE SetRegister(Shr(registers[dst_idx], WrappingNeg(src) % 16))

op_srl ==
    /\ opc = Opcode.srl
    /\ IF IsPositive(src)
       THEN IF ShiftOverflows(src) THEN Panic
            ELSE SetRegister(Shr(registers[dst_idx], src % 16))
       ELSE IF ShiftOverflows(WrappingNeg(src)) THEN Panic
            ELSE SetRegister(Shl(registers[dst_idx], WrappingNeg(src) % 16))

op_sra ==
    /\ opc = Opcode.sra
    /\ IF IsPositive(src)
       THEN IF ShiftOverflows(src) THEN Panic
            ELSE SetRegister(Sar(dst, src % 16))
       ELSE IF ShiftOverflows(WrappingNeg(src)) THEN Panic
            ELSE SetRegister(Shl(registers[dst_idx], WrappingNeg(src) % 16))

op_addi == opc = Opcode.addi /\ SetRegister(WrappingAdd(src, imm))

op_andi == opc = Opcode.andi /\ SetRegister(BitAnd(src, imm))

op_ori == opc = Opcode.ori /\ SetRegister(BitOr(src, imm))

op_xori == opc = Opcode.xori /\ SetRegister(BitXor(src, imm))

op_slli ==
    /\ opc = Opcode.slli
    /\ IF IsPositive(imm)
       THEN IF ShiftOverflows(imm) THEN Panic
            ELSE SetRegister(Shl(src, imm % 16))
       ELSE IF ShiftOverflows(WrappingNeg(imm)) THEN Panic
            ELSE SetRegister(Shr(src, WrappingNeg(imm) % 16))

op_srai ==
    /\ opc = Opcode.srai
    /\ IF IsPositive(imm)
       THEN IF ShiftOverflows(imm) THEN Panic
            ELSE SetRegister(Sar(src, imm % 16))
       ELSE IF ShiftOverflows(imm) THEN Panic
            ELSE SetRegister(Shl(src, imm % 16))

op_ld ==
    /\ opc = Opcode.ld
    /\ IF ~readable(src) THEN RaiseAndReturn(4, 1)
       ELSE SetRegister(RamIndex(ram, src))

op_st ==
    /\ opc = Opcode.st
    /\ IF ~writable(src) THEN RaiseAndReturn(2, 1)
       ELSE Complete(registers, RamIndexMut(ram, src, dst), device_calls)

\* the values a device may return from Device::input
DeviceInputs == {0, 43981}

op_dei ==
    /\ opc = Opcode.dei
    /\ IF ~privileged THEN RaiseAndReturn(12, 1)
       ELSE IF HighByte(src) = 0 \/ HighByte(src) \notin devices THEN Panic
       ELSE \E value \in DeviceInputs :
               Complete(RegistersIndexMut(registers, dst_idx, value), ram,
                        Append(device_calls,
                               [call |-> "input", device_index |-> HighByte(src),
                                context |-> LowByte(src), value |-> value]))

\* op_deo expecting a device in the slot, as dei does
op_deo_expecting ==
    /\ opc = Opcode.deo
    /\ IF ~privileged THEN RaiseAndReturn(10, 1)
       ELSE IF HighByte(src) = 0 \/ HighByte(src) \notin devices THEN Panic
       ELSE Complete(registers, ram,
                     Append(device_calls,
                            [call |-> "output", device_index |-> HighByte(src),
                             context |-> LowByte(src), value |-> dst]))

op_deo ==
    /\ opc = Opcode.deo
    /\ IF ~privileged THEN RaiseAndReturn(10, 1)
       ELSE IF HighByte(src) = 0 THEN Panic
       ELSE IF HighByte(src) \in devices
       THEN Complete(registers, ram,
                     Append(device_calls,
                            [call |-> "output", device_index |-> HighByte(src),
                             context |-> LowByte(src), value |-> dst]))
       ELSE Complete(registers, ram, device_calls)

op_rcsr ==
    /\ opc = Opcode.rcsr
    /\ IF ~privileged THEN RaiseAndReturn(20, 1)
       ELSE IF src_idx \in ReservedCsrs THEN Panic
       ELSE SetRegister(CsrIndex(control_status_registers, src_idx))

\* op_wcsr raising the context of rcsr
op_wcsr_rcsr_context ==
    /\ opc = Opcode.wcsr
    /\ IF ~privileged THEN RaiseAndReturn(20, 1)
       ELSE IF dst_idx \in ReservedCsrs THEN Panic
       ELSE /\ control_status_registers' = CsrIndexMut(control_status_registers, dst_idx, src)
            /\ AdvancePc
            /\ Return("executed")
            /\ UNCHANGED <<privileged, registers, ram, device_calls, panicked>>

op_wcsr ==
    /\ opc = Opcode.wcsr
    /\ IF ~privileged THEN RaiseAndReturn(18, 1)
       ELSE IF dst_idx \in ReservedCsrs THEN Panic
       ELSE /\ control_status_registers' = CsrIndexMut(control_status_registers, dst_idx, src)
            /\ AdvancePc
            /\ Return("executed")
            /\ UNCHANGED <<privileged, registers, ram, device_calls, panicked>>

\* op_swpr advancing the program counter past the restored address
op_swpr_advancing ==
    /\ opc = Opcode.swpr
    /\ IF privileged
       THEN /\ program_counter' = WrappingAdd(control_status_registers.ipc, 1)
            /\ privileged' = FALSE
            /\ Return("jump")
            /\ UNCHANGED <<registers, control_status_registers, ram, device_calls, panicked>>
       ELSE RaiseAndReturn(0, 1)

\* op_swpr clearing the global mask bit on the way back to user mode
op_swpr_unmasking ==
    /\ opc = Opcode.swpr
    /\ IF privileged
       THEN /\ program_counter' = control_status_registers.ipc
            /\ privileged' = FALSE
            /\ control_status_registers' =
                   [control_status_registers EXCEPT !.im[0] = @ - (@ % 2)]
            /\ Return("jump")
            /\ UNCHANGED <<registers, ram, device_calls, panicked>>
       ELSE RaiseAndReturn(0, 1)

op_swpr ==
    /\ opc = Opcode.swpr
    /\ IF privileged
       THEN /\ program_counter' = control_status_registers.ipc
            /\ privileged' = FALSE
            /\ Return("jump")
            /\ UNCHANGED <<registers, control_status_registers, ram, device_calls, panicked>>
       ELSE RaiseAndReturn(0, 1)

op_ldio ==
    /\ opc = Opcode.ldio
    /\ IF ~readable(WrappingAdd(src, imm)) THEN RaiseAndReturn(4, 2)
       ELSE SetRegister(RamIndex(ram, WrappingAdd(src, imm)))

op_stio ==
    /\ opc = Opcode.stio
    /\ IF ~writable(WrappingAdd(src, imm)) THEN RaiseAndReturn(2, 2)
       ELSE Complete(registers, RamIndexMut(ram, WrappingAdd(src, imm), dst), device_calls)

\* op_jal reading R[src] after the link address was written to R[dst]
op_jal_link_first ==
    /\ opc = Opcode.jal
    /\ JumpTo(WrappingAdd(RegistersIndex(RegistersIndexMut(registers, dst_idx,
                                                           WrappingAdd(program_counter, 2)),
                                         src_idx),
                          imm),
              RegistersIndexMut(registers, dst_idx, WrappingAdd(program_counter, 2)))

op_jal ==
    /\ opc = Opcode.jal
    /\ JumpTo(WrappingAdd(src, imm),
              RegistersIndexMut(registers, dst_idx, WrappingAdd(program_counter, 2)))

\* JshDisplacement without the sign extension (a logical shift)
JshDisplacementUnsigned(word) == word \div 64

\* (((instr & 0b1111111111000000) as i16) >> 6) as u16
JshDisplacement(word) ==
    IF word \div 64 >= 512 THEN (word \div 64) + (WordModulus - 1024) ELSE word \div 64

op_jsh ==
    /\ opc = Opcode.jsh
    /\ JumpTo(WrappingAdd(program_counter, JshDisplacement(instr)), registers)

\* a branch: taken sets the program counter to imm, not taken falls through
Branch(taken) == IF taken THEN JumpTo(imm, registers) ELSE Complete(registers, ram, device_calls)

op_beq == opc = Opcode.beq /\ Branch(dst = src)

op_bne == opc = Opcode.bne /\ Branch(dst # src)

\* op_blt comparing the operands as unsigned values
op_blt_unsigned == opc = Opcode.blt /\ Branch(dst < src)

op_blt == opc = Opcode.blt /\ Branch(AsSigned(dst) < AsSigned(src))

op_bge == opc = Opcode.bge /\ Branch(AsSigned(dst) >= AsSigned(src))

op_bltu == opc = Opcode.bltu /\ Branch(dst < src)

op_bgeu == opc = Opcode.bgeu /\ Branch(dst >= src)

op_undefined == opc \notin DefinedOpcodes /\ Panic

-----------------------------------------------------------------------------
(* sama: Emulator::step                                                     *)

deviceVars == <<interrupt_mask, handles, attempts>>

\* step() is entered with no interrupt pending and reaches the match
Fetch ==
    /\ cpu = "idle"
    /\ ~panicked
    /\ steps < MaxSteps
    /\ ~IsFull(channel)

\* the executability checks in front of the match, then the arm
Execute(arm) ==
    /\ Fetch
    /\ IF ~executable(program_counter) THEN RaiseAndReturn(1, instruction_length)
       ELSE IF takes_imm /\ ~executable(WrappingAdd(program_counter, 1))
       THEN RaiseAndReturn(1, 2)
       ELSE arm
    /\ steps' = steps + 1
    /\ UNCHANGED <<devices, channel, cpu, overflow_checks, host_writes, host_access,
                   deviceVars>>
    /\ UNCHANGED nonSamaVars

\* step(), first half of the interrupt service: the channel is full, so the
\* global mask bit of the CPU's IM[0] is set
StepCheckInterrupt ==
    /\ cpu = "idle"
    /\ ~panicked
    /\ steps < MaxSteps
    /\ IsFull(channel)
    /\ control_status_registers' = [control_status_registers EXCEPT !.im[0] = BitOr(@, 1)]
    /\ cpu' = "masked"
    /\ UNCHANGED <<program_counter, privileged, registers, devices, ram, channel,
                   panicked, overflow_checks, device_calls, last_step, steps,
                   host_writes, host_access, deviceVars>>
    /\ UNCHANGED nonSamaVars

\* StepServeInterrupt saving the address after the interrupted instruction
StepServeInterruptSkipping ==
    /\ cpu = "masked"
    /\ channel' = Tail(channel)
    /\ control_status_registers' =
           [control_status_registers EXCEPT
               !.ipc = WrappingAdd(program_counter, instruction_length),
               !.ic = Head(channel)]
    /\ program_counter' = control_status_registers.iv
    /\ privileged' = TRUE
    /\ cpu' = "idle"
    /\ last_step' = [kind |-> "hardware_interrupt", opc |-> opc, pc |-> program_counter,
                     context |-> Head(channel), length |-> 0]
    /\ steps' = steps + 1
    /\ UNCHANGED <<registers, devices, ram, panicked, overflow_checks, device_calls,
                   host_writes, host_access, deviceVars>>
    /\ UNCHANGED nonSamaVars

\* StepServeInterrupt entering the handler in the mode of the interrupted code
StepServeInterruptInMode ==
    /\ cpu = "masked"
    /\ channel' = Tail(channel)
    /\ control_status_registers' =
           [control_status_registers EXCEPT !.ipc = program_counter, !.ic = Head(channel)]
    /\ program_counter' = control_status_registers.iv
    /\ cpu' = "idle"
    /\ last_step' = [kind |-> "hardware_interrupt", opc |-> opc, pc |-> program_counter,
                     context |-> Head(channel), length |-> 0]
    /\ steps' = steps + 1
    /\ UNCHANGED <<privileged, registers, devices, ram, panicked, overflow_checks,
                   device_calls, host_writes, host_access, deviceVars>>
    /\ UNCHANGED nonSamaVars

\* step(), second half of the interrupt service: the channel is drained and
\* the interrupt is entered
StepServeInterrupt ==
    /\ cpu = "masked"
    /\ channel' = Tail(channel)
    /\ control_status_registers' =
           [control_status_registers EXCEPT !.ipc = program_counter, !.ic = Head(channel)]
    /\ program_counter' = control_status_registers.iv
    /\ privileged' = TRUE
    /\ cpu' = "idle"
    /\ last_step' = [kind |-> "hardware_interrupt", opc |-> opc, pc |-> program_counter,
                     context |-> Head(channel), length |-> 0]
    /\ steps' = steps + 1
    /\ UNCHANGED <<registers, devices, ram, panicked, overflow_checks, device_calls,
                   host_writes, host_access, deviceVars>>
    /\ UNCHANGED nonSamaVars

StepAlu == Execute(op_add \/ op_sub \/ op_and \/ op_or \/ op_xor)

StepShift == Execute(op_sll \/ op_srl \/ op_sra \/ op_slli \/ op_srai)

StepImmediate == Execute(op_addi \/ op_andi \/ op_ori \/ op_xori)

StepMemory == Execute(op_ld \/ op_st \/ op_ldio \/ op_stio)

StepDevice == Execute(op_dei \/ op_deo)

StepCsr == Execute(op_rcsr \/ op_wcsr)

StepSwpr == Execute(op_swpr)

StepJump == Execute(op_jal \/ op_jsh)

StepBranch == Execute(op_beq \/ op_bne \/ op_blt \/ op_bge \/ op_bltu \/ op_bgeu)

StepUndefined == Execute(op_undefined)

-----------------------------------------------------------------------------
(* sama: the host's register accessor (sama/src/lua.rs)                     *)

\* the (index, value) pairs the host writes
HostRegisterWrites == {<<0, 5>>, <<1, 5>>}

HostWriteRegister ==
    /\ cpu = "idle"
    /\ ~panicked
    /\ host_writes < MaxHostWrites
    /\ \E w \in HostRegisterWrites : registers' = RegistersIndexMut(registers, w[1], w[2])
    /\ host_writes' = host_writes + 1
    /\ UNCHANGED <<program_counter, privileged, control_status_registers, devices, ram,
                   channel, cpu, panicked, overflow_checks, device_calls, last_step,
                   steps, host_access, deviceVars>>
    /\ UNCHANGED nonSamaVars

-----------------------------------------------------------------------------
(* sama: InterruptHandle::try_interrupt (sama/src/devices.rs)               *)

\* the devices that own an interrupt handle, and the contexts they pass
DeviceIds == {3, 17}

InterruptContexts == {85}

IdleHandle == [at |-> "idle", context |-> 0, result |-> "none"]

\* try_interrupt, first half: the mask table is read and tested
TryInterruptReadMask(d) ==
    /\ handles[d].at = "idle"
    /\ attempts < MaxAttempts
    /\ attempts' = attempts + 1
    /\ \E c \in InterruptContexts :
          handles' = [handles EXCEPT ![d] =
              IF InterruptMasked(interrupt_mask, d)
              THEN [at |-> "idle", context |-> c, result |-> "InterruptMasked"]
              ELSE [at |-> "send", context |-> c, result |-> "none"]]
    /\ UNCHANGED <<program_counter, privileged, registers, control_status_registers,
                   devices, ram, channel, interrupt_mask, cpu, panicked, overflow_checks,
                   device_calls, last_step, steps, host_writes, host_access>>
    /\ UNCHANGED nonSamaVars

\* try_interrupt, second half: the word is offered to the channel
TryInterruptSend(d) ==
    /\ handles[d].at = "send"
    /\ channel' = TrySend(channel, InterruptWord(d, handles[d].context))
    /\ handles' = [handles EXCEPT ![d] =
           [at |-> "idle", context |-> @.context,
            result |-> IF TrySendOk(channel) THEN "Ok" ELSE "TrySendError"]]
    /\ UNCHANGED <<program_counter, privileged, registers, control_status_registers,
                   devices, ram, interrupt_mask, cpu, panicked, overflow_checks,
                   device_calls, last_step, steps, attempts, host_writes, host_access>>
    /\ UNCHANGED nonSamaVars

TryInterruptCheck == \E d \in DeviceIds : TryInterruptReadMask(d)

TryInterruptOffer == \E d \in DeviceIds : TryInterruptSend(d)

-----------------------------------------------------------------------------
(* sama: the states a host sets up before stepping                          *)

\* the instruction word with the given fields
\* an instruction word with the two register fields in each other's place
InstructionWordSwapped(o, d, s) == o + 64 * s + 2048 * d

InstructionWord(o, d, s) == o + 64 * d + 2048 * s

\* a memory holding `word' at `base' and `immediate' in the word after it
LoadAt(mem, base, word, immediate) ==
    RamIndexMut(RamIndexMut(mem, base, word), WrappingAdd(base, 1), immediate)

EmptyRam == <<>>

\* the address the interrupt vector is set to
VectorAddress == 256

\* the address of a swpr that drops to user mode in front of the instruction
TrampolineAddress == 512

ZeroRegisters == [i \in 0..31 |-> 0]

\* Emulator::default() with the fields the host sets through its accessors
InitEmulator(image) ==
    /\ program_counter = image.pc
    /\ privileged = TRUE
    /\ registers = image.registers
    /\ control_status_registers = [DefaultCsr EXCEPT !.iv = VectorAddress, !.ipc = image.ipc]
    /\ ram = image.ram
    /\ channel = <<>>
    /\ cpu = "idle"
    /\ panicked = FALSE
    /\ device_calls = <<>>
    /\ last_step = NoStep
    /\ steps = 0
    /\ attempts = 0
    /\ host_writes = 0
    /\ host_access = NoAccess
    /\ handles = [d \in DeviceIds |-> IdleHandle]

\* the opcodes, register indices, register values and immediates stepped over
TestedOpcodes == DefinedOpcodes \cup {9}

TestedRegisterPairs == {<<0, 0>>, <<0, 1>>, <<1, 0>>, <<1, 1>>, <<1, 2>>, <<2, 1>>}

TestedValues == {0, 1, 853, 32768, 65535}

TestedImmediates == {0, 1, 32769, 65535}

TestedBases == {0, 65535}

ImmediatesOf(o) == IF (o \div 8) % 2 = 1 /\ o # 41 THEN TestedImmediates ELSE {0}

\* one instruction at `base', entered directly in privileged mode, or through
\* a swpr at TrampolineAddress that returns to `base' in user mode
CpuImages ==
    { [pc |-> IF user THEN TrampolineAddress ELSE base,
       ipc |-> IF user THEN base ELSE 0,
       registers |-> [ZeroRegisters EXCEPT ![1] = v[1], ![2] = v[2]],
       ram |-> LoadAt(IF user THEN LoadAt(EmptyRam, TrampolineAddress, Opcode.swpr, 0)
                      ELSE EmptyRam,
                      base, InstructionWord(o, p[1], p[2]), i)] :
      o \in TestedOpcodes, p \in TestedRegisterPairs, v \in TestedValues \X TestedValues,
      i \in TestedImmediates, base \in TestedBases, user \in BOOLEAN }

\* an all-zero emulator whose memory holds addi r1, r0, 1 and beq r0, r0, 10
ExampleImage ==
    [pc |-> 0, ipc |-> 0, registers |-> ZeroRegisters,
     ram |-> LoadAt(LoadAt(EmptyRam, 0, InstructionWord(Opcode.addi, 1, 0), 1),
                    2, InstructionWord(Opcode.beq, 0, 0), 10)]

\* a jsh at `base' with each value of its 10-bit displacement field
JshImages ==
    { [pc |-> base, ipc |-> 0, registers |-> ZeroRegisters,
       ram |-> LoadAt(EmptyRam, base, Opcode.jsh + 64 * field, 0)] :
      field \in 0..1023, base \in TestedBases }

ClearMask == [i \in 0..15 |-> 0]

InitCpu ==
    /\ \E image \in { m \in CpuImages :
                        LET w == RamIndex(m.ram, IF m.pc = TrampolineAddress THEN m.ipc ELSE m.pc)
                        IN  RamIndex(m.ram, WrappingAdd(IF m.pc = TrampolineAddress
                                                        THEN m.ipc ELSE m.pc, 1))
                                \in ImmediatesOf(w % 64) }
                     \cup {ExampleImage} \cup JshImages :
          InitEmulator(image)
    /\ devices = {3}
    /\ interrupt_mask = ClearMask
    /\ overflow_checks \in BOOLEAN
    /\ IdleCodec
    /\ IdleAssembler
    /\ IdleLexer

NextCpu ==
    \/ StepAlu
    \/ StepShift
    \/ StepImmediate
    \/ StepMemory
    \/ StepDevice
    \/ StepCsr
    \/ StepSwpr
    \/ StepJump
    \/ StepBranch
    \/ StepUndefined
    \/ HostWriteRegister

SpecCpu == InitCpu /\ [][NextCpu]_vars

\* the mask tables a handle may be given
MaskTables ==
    { ClearMask,
      [ClearMask EXCEPT ![0] = 1],
      [ClearMask EXCEPT ![0] = 8],
      [ClearMask EXCEPT ![1] = 2] }

\* an empty memory, or a handler at the interrupt vector that returns by swpr
InterruptImages ==
    { [pc |-> base, ipc |-> 0, registers |-> ZeroRegisters, ram |-> m] :
      base \in {0, 7}, m \in {EmptyRam, LoadAt(EmptyRam, VectorAddress, Opcode.swpr, 0)} }

Init ==
    /\ \E image \in InterruptImages : InitEmulator(image)
    /\ devices = DeviceIds
    /\ interrupt_mask \in MaskTables
    /\ overflow_checks \in BOOLEAN
    /\ IdleCodec
    /\ IdleAssembler
    /\ IdleLexer

Next ==
    \/ TryInterruptCheck
    \/ TryInterruptOffer
    \/ StepCheckInterrupt
    \/ StepServeInterrupt
    \/ StepAlu
    \/ StepSwpr

Spec == Init /\ [][Next]_vars

-----------------------------------------------------------------------------
(* sama: the control/status registers under rcsr, wcsr and the host         *)

\* ControlStatusRegisters Index / IndexMut: the indices whose arm panics (the
\* reserved ones, and those of the unreachable!() arm)
CsrPanics(index) == index \in ReservedCsrs \/ index > 31

\* the indices and the values the host passes to the accessor
HostCsrIndices == {0, 15, 16, 18, 19, 20, 21, 22, 31, 32}

HostCsrValues == {43981}

\* LuaControlStatusRegisters, MetaMethod::Index
HostReadCsr ==
    /\ cpu = "idle"
    /\ ~panicked
    /\ host_writes < MaxHostWrites
    /\ \E index \in HostCsrIndices :
          IF CsrPanics(index)
          THEN /\ host_access' = [call |-> "Index", index |-> index, value |-> 0,
                                  result |-> "panic", wrote |-> host_access.wrote]
               /\ panicked' = TRUE
          ELSE /\ host_access' = [call |-> "Index", index |-> index,
                                  value |-> CsrIndex(control_status_registers, index),
                                  result |-> "Ok", wrote |-> host_access.wrote]
               /\ UNCHANGED panicked
    /\ host_writes' = host_writes + 1
    /\ UNCHANGED <<program_counter, privileged, registers, control_status_registers,
                   devices, ram, channel, cpu, overflow_checks, device_calls, last_step,
                   steps, deviceVars>>
    /\ UNCHANGED nonSamaVars

\* LuaControlStatusRegisters, MetaMethod::NewIndex
HostWriteCsr ==
    /\ cpu = "idle"
    /\ ~panicked
    /\ host_writes < MaxHostWrites
    /\ \E index \in HostCsrIndices, value \in HostCsrValues :
          IF CsrPanics(index)
          THEN /\ host_access' = [call |-> "NewIndex", index |-> index,
                                  value |-> value, result |-> "panic",
                                  wrote |-> host_access.wrote]
               /\ panicked' = TRUE
               /\ UNCHANGED control_status_registers
          ELSE /\ host_access' = [call |-> "NewIndex", index |-> index,
                                  value |-> value, result |-> "Ok",
                                  wrote |-> steps]
               /\ control_status_registers' =
                      CsrIndexMut(control_status_registers, index, value)
               /\ UNCHANGED panicked
    /\ host_writes' = host_writes + 1
    /\ UNCHANGED <<program_counter, privileged, registers, devices, ram, channel, cpu,
                   overflow_checks, device_calls, last_step, steps, deviceVars>>
    /\ UNCHANGED nonSamaVars

\* control/status registers that all hold different values, none with bit 0 set
DistinctCsr ==
    [im |-> [i \in 0..15 |-> 1000 + 2 * i], iv |-> VectorAddress, ipc |-> 0, ic |-> 1200,
     mpc |-> [i \in 0..1 |-> 1300 + 2 * i], mpa |-> [i \in 0..7 |-> 1400 + 2 * i]]

\* the values of the register that wcsr writes from
TestedCsrValues == {1, 43690, 65535}

\* wcsr i, r1 followed by rcsr r2, i at address 0, or rcsr r2, i alone, for each
\* of the 32 indices i; entered in privileged mode, or from a swpr at
\* TrampolineAddress in user mode
CsrImages ==
    { [pc |-> IF user THEN TrampolineAddress ELSE 0,
       ipc |-> 0,
       registers |-> [ZeroRegisters EXCEPT ![1] = v],
       ram |-> LoadAt(IF user THEN LoadAt(EmptyRam, TrampolineAddress, Opcode.swpr, 0)
                      ELSE EmptyRam,
                      0,
                      IF both THEN InstructionWord(Opcode.wcsr, i, 1)
                      ELSE InstructionWord(Opcode.rcsr, 2, i),
                      IF both THEN InstructionWord(Opcode.rcsr, 2, i) ELSE 0)] :
      i \in 0..31, v \in TestedCsrValues, both \in BOOLEAN, user \in BOOLEAN }

InitCsr ==
    /\ \E image \in CsrImages :
          /\ program_counter = image.pc
          /\ registers = image.registers
          /\ ram = image.ram
    /\ privileged = TRUE
    /\ control_status_registers = DistinctCsr
    /\ channel = <<>>
    /\ cpu = "idle"
    /\ panicked = FALSE
    /\ device_calls = <<>>
    /\ last_step = NoStep
    /\ steps = 0
    /\ attempts = 0
    /\ host_writes = 0
    /\ host_access = NoAccess
    /\ handles = [d \in DeviceIds |-> IdleHandle]
    /\ devices = {3}
    /\ interrupt_mask = ClearMask
    /\ overflow_checks \in BOOLEAN
    /\ IdleCodec
    /\ IdleAssembler
    /\ IdleLexer

NextCsr ==
    \/ StepCsr
    \/ StepSwpr
    \/ HostReadCsr
    \/ HostWriteCsr

SpecCsr == InitCsr /\ [][NextCsr]_vars

-----------------------------------------------------------------------------
(* sama: loads and stores under the memory-protection registers             *)

\* the contents of the 29 control/status registers the host sets up: none, all
\* bits of MPC and MPA, or different values everywhere
ProtectionSettings ==
    { DefaultCsr,
      [DefaultCsr EXCEPT !.mpc = [i \in 0..1 |-> 65535], !.mpa = [i \in 0..7 |-> 65535]],
      DistinctCsr }

MemoryOpcodes == {Opcode.ld, Opcode.st, Opcode.ldio, Opcode.stio}

\* the addresses and values in r1 and r2
TestedAddresses == {0, 1, 65535}

\* one load or store at `base', over a memory that holds 853 at address 1;
\* entered in privileged mode, or from a swpr at TrampolineAddress in user mode
MemoryImages ==
    { [pc |-> IF user THEN TrampolineAddress ELSE base,
       ipc |-> IF user THEN base ELSE 0,
       registers |-> [ZeroRegisters EXCEPT ![1] = v[1], ![2] = v[2]],
       ram |-> LoadAt(RamIndexMut(IF user
                                  THEN LoadAt(EmptyRam, TrampolineAddress, Opcode.swpr, 0)
                                  ELSE EmptyRam,
                                  1, 853),
                      base, InstructionWord(o, p[1], p[2]), i)] :
      o \in MemoryOpcodes, p \in TestedRegisterPairs,
      v \in TestedAddresses \X TestedAddresses,
      i \in {0, 2, 65535}, base \in {16, 65535}, user \in BOOLEAN }

InitMemory ==
    /\ \E image \in { m \in MemoryImages :
                        \/ RamIndex(m.ram, IF m.pc = TrampolineAddress THEN m.ipc ELSE m.pc)
                               % 64 \in {Opcode.ldio, Opcode.stio}
                        \/ RamIndex(m.ram, (1 + IF m.pc = TrampolineAddress
                                                THEN m.ipc ELSE m.pc) % 65536)
                               \in {0, 853} },
             setting \in ProtectionSettings :
          /\ program_counter = image.pc
          /\ registers = image.registers
          /\ ram = image.ram
          /\ control_status_registers =
                 [setting EXCEPT !.iv = VectorAddress, !.ipc = image.ipc]
    /\ privileged = TRUE
    /\ channel = <<>>
    /\ cpu = "idle"
    /\ panicked = FALSE
    /\ device_calls = <<>>
    /\ last_step = NoStep
    /\ steps = 0
    /\ attempts = 0
    /\ host_writes = 0
    /\ host_access = NoAccess
    /\ handles = [d \in DeviceIds |-> IdleHandle]
    /\ devices = {3}
    /\ interrupt_mask = ClearMask
    /\ overflow_checks \in BOOLEAN
    /\ IdleCodec
    /\ IdleAssembler
    /\ IdleLexer

NextMemory ==
    \/ StepMemory
    \/ StepSwpr

SpecMemory == InitMemory /\ [][NextMemory]_vars

-----------------------------------------------------------------------------
(* sama: the emulator and its devices in both privilege modes               *)

\* one opcode of each arm of the match, and those that test the privilege
ModeOpcodes ==
    {Opcode.add, Opcode.sll, Opcode.addi, Opcode.st, Opcode.ldio, Opcode.dei, Opcode.deo,
     Opcode.rcsr, Opcode.wcsr, Opcode.swpr, Opcode.jal, Opcode.jsh, Opcode.beq, 9}

\* the instruction o r2, r1 at `base', with the immediate 4 where it takes
\* one, and a handler at the interrupt vector that returns by swpr; R[1]
\* addresses device 3 with context 85
ModeImages ==
    { [pc |-> base, ipc |-> 0,
       registers |-> [ZeroRegisters EXCEPT ![1] = 853, ![2] = 1],
       ram |-> LoadAt(LoadAt(EmptyRam, VectorAddress, Opcode.swpr, 0),
                      base, InstructionWord(o, 2, 1),
                      IF (o \div 8) % 2 = 1 /\ o # 41 THEN 4 ELSE 0)] :
      o \in ModeOpcodes, base \in {7, 65535} }

\* the emulator in privileged mode as the host set it up, or in user mode as a
\* swpr with IPC = base left it
InitMode ==
    /\ \E image \in ModeImages :
          /\ program_counter = image.pc
          /\ registers = image.registers
          /\ ram = image.ram
    /\ privileged \in BOOLEAN
    /\ control_status_registers = [DefaultCsr EXCEPT !.iv = VectorAddress,
                                                     !.ipc = program_counter]
    /\ channel = <<>>
    /\ cpu = "idle"
    /\ panicked = FALSE
    /\ device_calls = <<>>
    /\ last_step = NoStep
    /\ steps = 0
    /\ attempts = 0
    /\ host_writes = 0
    /\ host_access = NoAccess
    /\ handles = [d \in DeviceIds |-> IdleHandle]
    /\ devices = DeviceIds
    /\ interrupt_mask = ClearMask
    /\ overflow_checks = FALSE
    /\ IdleCodec
    /\ IdleAssembler
    /\ IdleLexer

NextMode ==
    \/ TryInterruptCheck
    \/ TryInterruptOffer
    \/ StepCheckInterrupt
    \/ StepServeInterrupt
    \/ StepAlu
    \/ StepShift
    \/ StepImmediate
    \/ StepMemory
    \/ StepDevice
    \/ StepCsr
    \/ StepSwpr
    \/ StepJump
    \/ StepBranch
    \/ StepUndefined

SpecMode == InitMode /\ [][NextMode]_vars

-----------------------------------------------------------------------------
(* poki: writing an object file and reading it back                         *)

\* the emulator left as constructed while the codec runs
IdleEmulator ==
    /\ InitEmulator([pc |-> 0, ipc |-> 0, registers |-> ZeroRegisters, ram |-> EmptyRam])
    /\ devices = {}
    /\ interrupt_mask = ClearMask

\* the most segments of a Poki that are not empty
MaxNonEmptySegments == 2

\* the segments tried: labels are empty, one BMP character, or hold a character
\* outside the BMP (two UTF-16 code units)
TestedSegments ==
    { EmptySegment,
      [contents |-> <<5>>, relocation_table |-> <<>>, export_table |-> <<>>],
      [contents |-> <<0, 43981>>,
       relocation_table |-> <<[offset |-> 1, segment_index |-> 65535, segment_offset |-> 0]>>,
       export_table |-> <<>>],
      [contents |-> <<>>, relocation_table |-> <<>>,
       export_table |-> <<[label |-> <<97>>, offset |-> 0]>>],
      [contents |-> <<41, 0, 256>>,
       relocation_table |-> <<[offset |-> 0, segment_index |-> 5, segment_offset |-> 2],
                              [offset |-> 2, segment_index |-> 65535, segment_offset |-> 1]>>,
       export_table |-> <<[label |-> <<97, 128512>>, offset |-> 0],
                          [label |-> <<>>, offset |-> 65535]>>] }

TestedUnresolvedTables == {<<>>, <<<<97>>>>, <<<<>>, <<97, 128512>>, <<97>>>>}

\* the object files with at most MaxNonEmptySegments segments that are not empty
TestedPokis ==
    { [segments |->
          [k \in 1..8 |->
              IF \E n \in 1..MaxNonEmptySegments : at[n] = k
              THEN chosen[CHOOSE n \in 1..MaxNonEmptySegments :
                              at[n] = k /\ \A m \in 1..MaxNonEmptySegments :
                                               at[m] = k => m <= n]
              ELSE EmptySegment],
       unresolved_table |-> u] :
      at \in [1..MaxNonEmptySegments -> 1..8],
      chosen \in [1..MaxNonEmptySegments -> TestedSegments],
      u \in TestedUnresolvedTables }

InitPoki ==
    /\ IdleEmulator
    /\ overflow_checks \in BOOLEAN
    /\ poki \in TestedPokis
    /\ big_endian \in BOOLEAN
    /\ read_limit = 2
    /\ stream = <<>>
    /\ written = "none"
    /\ decoded = [ok |-> FALSE, error |-> "none"]
    /\ codec = "new"
    /\ IdleAssembler
    /\ IdleLexer

\* Poki::serialize into a writer that accepts every byte
PokiSerialize ==
    /\ codec = "new"
    /\ stream' = serialize(poki).bytes
    /\ written' = IF serialize(poki).ok THEN "Ok" ELSE serialize(poki).error
    /\ codec' = "written"
    /\ UNCHANGED <<poki, big_endian, read_limit, decoded>>
    /\ UNCHANGED samaVars
    /\ UNCHANGED paliVars
    /\ UNCHANGED lexVars

\* Poki::deserialize from a reader over the bytes that were written
PokiDeserialize ==
    /\ codec = "written"
    /\ written = "Ok"
    /\ decoded' = deserialize(stream, overflow_checks)
    /\ codec' = "read"
    /\ UNCHANGED <<poki, big_endian, stream, read_limit, written>>
    /\ UNCHANGED samaVars
    /\ UNCHANGED paliVars
    /\ UNCHANGED lexVars

NextPoki ==
    \/ PokiSerialize
    \/ PokiDeserialize

SpecPoki == InitPoki /\ [][NextPoki]_vars

-----------------------------------------------------------------------------
(* poki: reading files that no serializer wrote                             *)

\* the object files whose bytes are cut short, extended or altered: an
\* export a in segment 0, the same with two unresolved labels, and an
\* unresolved label alone
ReadPokis ==
    { [segments |-> [k \in 1..8 |->
                        IF k = 1 /\ exporting
                        THEN [contents |-> <<>>, relocation_table |-> <<>>,
                              export_table |-> <<[label |-> <<97>>, offset |-> 0]>>]
                        ELSE EmptySegment],
       unresolved_table |-> u] :
      exporting \in BOOLEAN, u \in {<<>>, <<<<97>>>>, <<<<97>>, <<>>>>} }

\* the label sizes written over the size of the first export label
TestedLabelSizes == {0, 1, 2, 65533, 65534, 65535}

\* the place of that size in the stream: the word after the magic number and
\* the eight headers
FirstLabelSizeAt == 28

\* the bytes with the two bytes of the word at the index replaced
WithWord(bytes, at, word) ==
    [i \in DOMAIN bytes |->
        IF i = 2 * at + 1 THEN ToNeBytes(word)[1]
        ELSE IF i = 2 * at + 2 THEN ToNeBytes(word)[2]
        ELSE bytes[i]]

\* a written file, each of its beginnings, the file with one more byte, and
\* the file with another size for its first export label
CraftedStreams(bytes) ==
    { SubSeq(bytes, 1, n) : n \in 0..Len(bytes) }
    \cup { Append(bytes, b) : b \in {0, 1} }
    \cup { WithWord(bytes, FirstLabelSizeAt, size) : size \in TestedLabelSizes }

InitPokiRead ==
    /\ IdleEmulator
    /\ overflow_checks \in BOOLEAN
    /\ IdleAssembler
    /\ IdleLexer
    /\ poki \in ReadPokis
    /\ big_endian \in BOOLEAN
    /\ read_limit \in {1, 2}
    /\ stream \in CraftedStreams(serialize(poki).bytes)
    /\ written = "Ok"
    /\ decoded = [ok |-> FALSE, error |-> "none"]
    /\ codec = "written"

NextPokiRead ==
    \/ PokiDeserialize

SpecPokiRead == InitPokiRead /\ [][NextPokiRead]_vars

-----------------------------------------------------------------------------
(* pali: the assembler (pali/src/assemble.rs, pali/src/parse.rs)            *)

\* a label token: its text and the span of the source it was read from
Label(text, span) == [label |-> text, source_span |-> span]

\* Immediate::Label and Immediate::Number
ImmediateLabel(label) == [kind |-> "Label", label |-> label]

ImmediateNumber(n) == [kind |-> "Number", n |-> n]

\* the variants of Code
Block(label, contents) == [kind |-> "Block", label |-> label, contents |-> contents]

String(s) == [kind |-> "String", s |-> s]

Number(n) == [kind |-> "Number", n |-> n]

Instruction(o, d, s) ==
    [kind |-> "Instruction", opcode |-> o, dst |-> d, src |-> s]

ImmediateInstruction(o, d, s, i) ==
    [kind |-> "ImmediateInstruction", opcode |-> o, dst |-> d, src |-> s, imm |-> i]

RCSR(d, s) == [kind |-> "RCSR", dst |-> d, src |-> s]

WCSR(d, s) == [kind |-> "WCSR", dst |-> d, src |-> s]

JSH(i) == [kind |-> "JSH", imm |-> i]

\* Code::size, in words
RECURSIVE size(_)
RECURSIVE SizeSum(_)
SizeSum(contents) ==
    IF contents = <<>> THEN 0 ELSE size(Head(contents)) + SizeSum(Tail(contents))

\* size counting one word for an instruction with an immediate
size_one_word(code) ==
    CASE code.kind = "Block" -> SizeSum(code.contents)
      [] code.kind = "String" -> Len(EncodeUtf16(code.s))
      [] OTHER -> 1

size(code) ==
    CASE code.kind = "Block" -> SizeSum(code.contents)
      [] code.kind = "String" -> Len(EncodeUtf16(code.s))
      [] code.kind = "ImmediateInstruction" -> 2
      [] OTHER -> 1

\* format!("{ctx}.{label}"), or the label alone in the empty context
AbsoluteLabel(ctx, label) ==
    IF ctx = <<>> THEN label.label ELSE ctx \o <<46>> \o label.label

\* HashMap::insert
Insert(table, key, entry) ==
    [k \in DOMAIN table \cup {key} |-> IF k = key THEN entry ELSE table[k]]

SymbolTableEntry(segment_index, segment_offset, source_span) ==
    [segment_index |-> segment_index, segment_offset |-> segment_offset,
     source_span |-> source_span]

\* the error of the miette::bail! in symbol_table_helper
DuplicateLabel(absolute_label, previous_definition, label) ==
    [ok |-> FALSE,
     error |-> "label is defined more than once",
     label |-> absolute_label,
     spans |-> <<previous_definition.source_span, label.source_span>>]

\* symbol_table_helper: a block is entered under its absolute label at the
\* offset it starts at, its contents are walked from that offset, and every
\* code moves the offset on by its size
RECURSIVE symbol_table_helper(_, _, _, _, _)
symbol_table_helper(segment, segment_index, segment_offset, partial_symbol_table, ctx) ==
    IF segment = <<>> THEN [ok |-> TRUE, value |-> partial_symbol_table]
    ELSE IF Head(segment).kind # "Block"
    THEN symbol_table_helper(Tail(segment), segment_index,
                             segment_offset + size(Head(segment)),
                             partial_symbol_table, ctx)
    ELSE IF AbsoluteLabel(ctx, Head(segment).label) \in DOMAIN partial_symbol_table
    THEN DuplicateLabel(AbsoluteLabel(ctx, Head(segment).label),
                        partial_symbol_table[AbsoluteLabel(ctx, Head(segment).label)],
                        Head(segment).label)
    ELSE Try(symbol_table_helper(
                 Head(segment).contents, segment_index, segment_offset,
                 Insert(partial_symbol_table,
                        AbsoluteLabel(ctx, Head(segment).label),
                        SymbolTableEntry(segment_index, segment_offset,
                                         Head(segment).label.source_span)),
                 AbsoluteLabel(ctx, Head(segment).label)),
             LAMBDA inner :
                 symbol_table_helper(Tail(segment), segment_index,
                                     segment_offset + size(Head(segment)),
                                     inner.value, ctx))

\* the loop of Program::symbol_table over the segments i..7
RECURSIVE SymbolTableFrom(_, _, _)
SymbolTableFrom(prog, i, symbol_table_so_far) ==
    IF i = 8 THEN [ok |-> TRUE, value |-> symbol_table_so_far]
    ELSE Try(symbol_table_helper(prog.segments[i + 1], i, 0, symbol_table_so_far, <<>>),
             LAMBDA walked : SymbolTableFrom(prog, i + 1, walked.value))

\* Program::symbol_table
symbol_table(prog) == SymbolTableFrom(prog, 0, <<>>)

\* the equality of two labels that Vec::contains applies: the texts are equal
LabelEq(a, b) == a.label = b.label

\* self.program.exports.contains(label)
ExportsContain(exports, label) == \E i \in DOMAIN exports : LabelEq(exports[i], label)

\* the Assembler that try_new returns
NewAssembler ==
    [partial_poki |-> new_empty, segment_index |-> 0, segment_offset |-> 0]

\* self.partial_poki.segments[usize::from(self.segment_index)].contents.push(word)
PushContents(self, word) ==
    [self EXCEPT !.partial_poki.segments[self.segment_index + 1].contents =
                     Append(@, word)]

ExtendContents(self, words) ==
    [self EXCEPT !.partial_poki.segments[self.segment_index + 1].contents = @ \o words]

PushRelocation(self, entry) ==
    [self EXCEPT !.partial_poki.segments[self.segment_index + 1].relocation_table =
                     Append(@, entry)]

PushExport(self, entry) ==
    [self EXCEPT !.partial_poki.segments[self.segment_index + 1].export_table =
                     Append(@, entry)]

\* unresolved_table.iter().position(|s| s == &label.label), from 0; the
\* length of the table when the label is not in it
UnresolvedPosition(unresolved_table, text) ==
    IF \E i \in DOMAIN unresolved_table : unresolved_table[i] = text
    THEN (CHOOSE i \in DOMAIN unresolved_table :
              /\ unresolved_table[i] = text
              /\ \A j \in 1..(i - 1) : unresolved_table[j] # text) - 1
    ELSE Len(unresolved_table)

\* the label entered in the unresolved table at every use
InternedAtEveryUse(self, text) ==
    [self EXCEPT !.partial_poki.unresolved_table = Append(@, text)]

\* the label is entered in the unresolved table unless it is there already
Interned(self, text) ==
    IF \E i \in DOMAIN self.partial_poki.unresolved_table :
           self.partial_poki.unresolved_table[i] = text
    THEN self
    ELSE [self EXCEPT !.partial_poki.unresolved_table = Append(@, text)]

\* the relocation entry of a label immediate, to be applied at offset: the
\* label's symbol when the symbol table has it, else its place in the
\* unresolved table under the segment index 0xFFFF
Relocated(self, prog, label, offset) ==
    Try(symbol_table(prog), LAMBDA table :
        [ok |-> TRUE,
         value |->
            IF label.label \in DOMAIN table.value
            THEN PushRelocation(self,
                     [offset |-> offset,
                      segment_index |-> table.value[label.label].segment_index,
                      segment_offset |-> table.value[label.label].segment_offset])
            ELSE PushRelocation(Interned(self, label.label),
                     [offset |-> offset,
                      segment_index |-> 65535,
                      segment_offset |->
                          UnresolvedPosition(self.partial_poki.unresolved_table,
                                             label.label)])])

\* self.segment_offset += code.size(), the last statement of add_code
Advanced(self, code) == [self EXCEPT !.segment_offset = @ + size(code)]

\* the export table entry a Block pushes when its label is exported
Exported(self, prog, label) ==
    IF ExportsContain(prog.exports, label)
    THEN PushExport(self, [label |-> label.label, offset |-> self.segment_offset])
    ELSE self

\* Assembler::add_code, and the loop over a sequence of codes that stops at
\* the first error
RECURSIVE add_code(_, _, _)
RECURSIVE AddCodes(_, _, _)
AddCodes(self, prog, codes) ==
    IF codes = <<>> THEN [ok |-> TRUE, value |-> self]
    ELSE Try(add_code(self, prog, Head(codes)),
             LAMBDA added : AddCodes(added.value, prog, Tail(codes)))

add_code(self, prog, code) ==
    CASE code.kind = "Block" ->
            Try(AddCodes(Exported(self, prog, code.label), prog, code.contents),
                LAMBDA inner : [ok |-> TRUE, value |-> Advanced(inner.value, code)])
      [] code.kind = "String" ->
            [ok |-> TRUE, value |-> Advanced(ExtendContents(self, EncodeUtf16(code.s)), code)]
      [] code.kind = "Number" ->
            [ok |-> TRUE, value |-> Advanced(PushContents(self, code.n), code)]
      [] code.kind = "Instruction" ->
            [ok |-> TRUE,
             value |-> Advanced(PushContents(self,
                           InstructionWord(code.opcode, code.dst, code.src)), code)]
      [] code.kind = "ImmediateInstruction" /\ code.imm.kind = "Number" ->
            [ok |-> TRUE,
             value |-> Advanced(PushContents(PushContents(self,
                           InstructionWord(code.opcode, code.dst, code.src)),
                           code.imm.n), code)]
      [] code.kind = "ImmediateInstruction" /\ code.imm.kind = "Label" ->
            Try(Relocated(PushContents(self,
                              InstructionWord(code.opcode, code.dst, code.src)),
                          prog, code.imm.label, self.segment_offset + 1),
                LAMBDA relocated :
                    [ok |-> TRUE,
                     value |-> Advanced(PushContents(relocated.value, 0), code)])
      [] code.kind = "RCSR" ->
            [ok |-> TRUE,
             value |-> Advanced(PushContents(self,
                           InstructionWord(Opcode.rcsr, code.dst, code.src)), code)]
      [] code.kind = "WCSR" ->
            [ok |-> TRUE,
             value |-> Advanced(PushContents(self,
                           InstructionWord(Opcode.wcsr, code.dst, code.src)), code)]
      [] code.kind = "JSH" /\ code.imm.kind = "Number" ->
            [ok |-> TRUE,
             value |-> Advanced(PushContents(self,
                           BitOr(Opcode.jsh, (code.imm.n * 64) % 65536)), code)]
      [] code.kind = "JSH" /\ code.imm.kind = "Label" ->
            Try(Relocated(self, prog, code.imm.label, self.segment_offset),
                LAMBDA relocated :
                    [ok |-> TRUE,
                     value |-> Advanced(PushContents(relocated.value, Opcode.jsh), code)])

\* the error of the export check
UndefinedExport(export) ==
    [ok |-> FALSE,
     error |-> "label exported, but is not defined",
     label |-> export.label,
     spans |-> <<export.source_span>>]

\* the first loop of assemble, from the i-th export on: the symbol table is
\* built for every export, and an error of building it is returned
RECURSIVE CheckExports(_, _)
\* the export check were it to stop after the first export it finds defined
CheckExportsFirstOnly(prog, i) ==
    IF i > Len(prog.exports) THEN [ok |-> TRUE, value |-> i]
    ELSE Try(symbol_table(prog), LAMBDA table :
             IF prog.exports[i].label \in DOMAIN table.value
             THEN [ok |-> TRUE, value |-> i]
             ELSE UndefinedExport(prog.exports[i]))

CheckExports(prog, i) ==
    IF i > Len(prog.exports) THEN [ok |-> TRUE, value |-> i]
    ELSE Try(symbol_table(prog), LAMBDA table :
             IF prog.exports[i].label \in DOMAIN table.value
             THEN CheckExports(prog, i + 1)
             ELSE UndefinedExport(prog.exports[i]))

\* the second loop of assemble, from segment i on: segment_index is moved on
\* after each segment, segment_offset is left as the segment's codes left it
RECURSIVE AssembleSegments(_, _, _)
AssembleSegments(self, prog, i) ==
    IF i = 8 THEN [ok |-> TRUE, value |-> self]
    ELSE Try(AddCodes(self, prog, prog.segments[i + 1]), LAMBDA segment :
             AssembleSegments([segment.value EXCEPT !.segment_index = @ + 1], prog, i + 1))

\* Assembler::assemble
assemble(prog) ==
    Try(CheckExports(prog, 1), LAMBDA checked :
        Try(AssembleSegments(NewAssembler, prog, 0), LAMBDA self :
            [ok |-> TRUE, value |-> self.value.partial_poki]))

-----------------------------------------------------------------------------
(* pali: assembling a parsed program                                        *)

\* the most labels an export form names
MaxExports == 2

\* the label texts a, b, a.b and x
LabelA == <<97>>

LabelB == <<98>>

LabelAB == <<97, 46, 98>>

LabelX == <<120>>

\* the contents of a segment, with the spans of its labels counted from base:
\* nothing; a block a; a block a that holds a block b; a top-level block a.b;
\* the block a twice; references to a and to x; a block b of every other code;
\* a block a that jumps forward to a block b; a jump to an empty block a that
\* ends the segment
SegmentSource(k, base) ==
    CASE k = 1 -> <<>>
      [] k = 2 -> <<Block(Label(LabelA, base + 1), <<Number(5)>>)>>
      [] k = 3 -> <<Block(Label(LabelA, base + 1),
                          <<Number(5), Block(Label(LabelB, base + 2), <<Number(6)>>)>>)>>
      [] k = 4 -> <<Number(7), Block(Label(LabelAB, base + 1), <<>>)>>
      [] k = 5 -> <<Block(Label(LabelA, base + 1), <<>>),
                    Block(Label(LabelA, base + 2), <<>>)>>
      [] k = 6 -> <<ImmediateInstruction(Opcode.addi, 1, 0,
                                         ImmediateLabel(Label(LabelA, base + 1))),
                    JSH(ImmediateLabel(Label(LabelX, base + 2))),
                    JSH(ImmediateLabel(Label(LabelX, base + 3)))>>
      [] k = 7 -> <<Block(Label(LabelB, base + 1),
                          <<String(<<104, 128512>>), RCSR(1, 17), WCSR(16, 1),
                            Instruction(Opcode.add, 1, 2),
                            ImmediateInstruction(Opcode.addi, 1, 1, ImmediateNumber(3)),
                            JSH(ImmediateNumber(1023))>>)>>
      [] k = 8 -> <<Block(Label(LabelA, base + 1),
                          <<JSH(ImmediateLabel(Label(LabelB, base + 2))),
                            ImmediateInstruction(Opcode.addi, 1, 0, ImmediateNumber(0))>>),
                    Block(Label(LabelB, base + 3),
                          <<ImmediateInstruction(Opcode.addi, 1, 1, ImmediateNumber(1))>>)>>
      [] k = 9 -> <<JSH(ImmediateLabel(Label(LabelA, base + 1))),
                    Block(Label(LabelA, base + 2), <<>>)>>

SegmentSources == 1..9

\* the two segments that are given contents
TestedPlacements == {<<1, 5>>, <<5, 6>>, <<3, 7>>}

RECURSIVE SeqsUpTo(_, _)
SeqsUpTo(S, n) ==
    IF n = 0 THEN {<<>>}
    ELSE SeqsUpTo(S, n - 1) \cup { Append(q, e) : q \in SeqsUpTo(S, n - 1), e \in S }

\* the export lists: the i-th label of the form has the span 100 + i
TestedExports ==
    { [i \in DOMAIN texts |-> Label(texts[i], 100 + i)] :
      texts \in SeqsUpTo({LabelA, LabelB, LabelAB, LabelX}, MaxExports) }

TestedPrograms ==
    { [exports |-> exports,
       segments |-> [k \in 1..8 |->
                        IF k = at[1] + 1 THEN SegmentSource(first, 10 * k)
                        ELSE IF k = at[2] + 1 THEN SegmentSource(second, 10 * k)
                        ELSE <<>>]] :
      exports \in TestedExports, at \in TestedPlacements,
      first \in SegmentSources, second \in SegmentSources }

InitPali ==
    /\ IdleEmulator
    /\ overflow_checks = FALSE
    /\ IdleCodec
    /\ program \in TestedPrograms
    /\ assembled = [ok |-> FALSE, error |-> "none"]
    /\ reassembled = [ok |-> FALSE, error |-> "none"]
    /\ assembler = "new"
    /\ IdleLexer

\* Assembler::assemble on the Assembler that try_new built from the program
Assemble ==
    /\ assembler = "new"
    /\ assembled' = assemble(program)
    /\ assembler' = "done"
    /\ UNCHANGED <<program, reassembled>>
    /\ UNCHANGED samaVars
    /\ UNCHANGED pokiVars
    /\ UNCHANGED lexVars

\* a second run that went on with the Poki the first run returned
ReassembleOnLeftOver ==
    /\ assembler = "done"
    /\ reassembled' =
           IF assembled.ok
           THEN Try(CheckExports(program, 1), LAMBDA checked :
                    Try(AssembleSegments([NewAssembler EXCEPT
                                              !.partial_poki = assembled.value],
                                         program, 0),
                        LAMBDA self : [ok |-> TRUE, value |-> self.value.partial_poki]))
           ELSE assemble(program)
    /\ assembler' = "again"
    /\ UNCHANGED <<program, assembled>>
    /\ UNCHANGED samaVars
    /\ UNCHANGED pokiVars
    /\ UNCHANGED lexVars

\* the assembler run once more on the same source: try_new parses it into
\* the same Program and starts from a new Assembler, the first one having
\* been consumed by assemble
Reassemble ==
    /\ assembler = "done"
    /\ reassembled' = assemble(program)
    /\ assembler' = "again"
    /\ UNCHANGED <<program, assembled>>
    /\ UNCHANGED samaVars
    /\ UNCHANGED pokiVars
    /\ UNCHANGED lexVars

NextPali ==
    \/ Assemble
    \/ Reassemble

SpecPali == InitPali /\ [][NextPali]_vars

-----------------------------------------------------------------------------
(* pali and sama: an assembled instruction in the memory of the emulator    *)

\* the values of lex::ControlStatusRegister
ControlStatusRegisters == (0..18) \cup (22..31)

\* the opcodes of the table that take an immediate word, and those that do
\* not and have no code of their own
ImmediateOpcodes ==
    { o \in DefinedOpcodes : (o \div 8) % 2 = 1 /\ o # Opcode.jsh }

PlainOpcodes ==
    { o \in DefinedOpcodes :
        (o \div 8) % 2 = 0 /\ o \notin {Opcode.rcsr, Opcode.wcsr} }

\* one instruction of each opcode with each pair of operands
InstructionCodes ==
    { Instruction(o, d, s) : o \in PlainOpcodes, d \in 0..31, s \in 0..31 }
    \cup { ImmediateInstruction(o, d, s, ImmediateNumber(42)) :
             o \in ImmediateOpcodes, d \in 0..31, s \in 0..31 }
    \cup { RCSR(d, s) : d \in 0..31, s \in ControlStatusRegisters }
    \cup { WCSR(d, s) : d \in ControlStatusRegisters, s \in 0..31 }

\* (segment x (block b code)) for each of the instructions
InstructionPrograms ==
    { [exports |-> <<>>,
       segments |-> [k \in 1..8 |->
                        IF k = 2 THEN <<Block(Label(LabelB, 21), <<code>>)>> ELSE <<>>]] :
      code \in InstructionCodes }

InitEncode ==
    /\ IdleEmulator
    /\ overflow_checks = FALSE
    /\ IdleCodec
    /\ program \in InstructionPrograms
    /\ assembled = [ok |-> FALSE, error |-> "none"]
    /\ reassembled = [ok |-> FALSE, error |-> "none"]
    /\ assembler = "new"
    /\ IdleLexer

\* the host stores the words of the assembled segment 1 in the memory of the
\* emulator from address 0 on, where the program counter is
LoadContents ==
    /\ assembler = "done"
    /\ assembled.ok
    /\ ram' = LoadAt(ram, 0, assembled.value.segments[2].contents[1],
                     IF Len(assembled.value.segments[2].contents) > 1
                     THEN assembled.value.segments[2].contents[2]
                     ELSE RamIndex(ram, 1))
    /\ assembler' = "loaded"
    /\ UNCHANGED <<program_counter, privileged, registers, control_status_registers,
                   devices, channel, interrupt_mask, handles, cpu, panicked,
                   overflow_checks, device_calls, last_step, steps, attempts,
                   host_writes, host_access>>
    /\ UNCHANGED <<program, assembled, reassembled>>
    /\ UNCHANGED pokiVars
    /\ UNCHANGED lexVars

NextEncode ==
    \/ Assemble
    \/ LoadContents

SpecEncode == InitEncode /\ [][NextEncode]_vars

-----------------------------------------------------------------------------
(* pali and sama: an assembled instruction stepped over                     *)

\* one instruction of each opcode over r1 and r2, followed by a second block
LengthCodes ==
    { Instruction(o, p[1], p[2]) : o \in PlainOpcodes, p \in {<<1, 2>>, <<2, 1>>} }
    \cup { ImmediateInstruction(o, p[1], p[2], ImmediateNumber(42)) :
             o \in ImmediateOpcodes, p \in {<<1, 2>>, <<2, 1>>} }
    \cup { RCSR(2, 16), WCSR(18, 1), JSH(ImmediateNumber(5)) }

\* (segment x (block a code) (block b 0)) for each of the instructions
LengthPrograms ==
    { [exports |-> <<>>,
       segments |-> [k \in 1..8 |->
                        IF k = 2
                        THEN <<Block(Label(LabelA, 21), <<code>>),
                               Block(Label(LabelB, 22), <<Number(0)>>)>>
                        ELSE <<>>]] :
      code \in LengthCodes }

\* a new emulator with device 3 attached, R[1] addressing it and R[2] = 1
InitLength ==
    /\ InitEmulator([pc |-> 0, ipc |-> 0,
                     registers |-> [ZeroRegisters EXCEPT ![1] = 853, ![2] = 1],
                     ram |-> EmptyRam])
    /\ devices = {3}
    /\ interrupt_mask = ClearMask
    /\ overflow_checks = FALSE
    /\ IdleCodec
    /\ program \in LengthPrograms
    /\ assembled = [ok |-> FALSE, error |-> "none"]
    /\ reassembled = [ok |-> FALSE, error |-> "none"]
    /\ assembler = "new"
    /\ IdleLexer

NextLength ==
    \/ Assemble
    \/ LoadContents
    \/ StepAlu
    \/ StepShift
    \/ StepImmediate
    \/ StepMemory
    \/ StepDevice
    \/ StepCsr
    \/ StepSwpr
    \/ StepJump
    \/ StepBranch

SpecLength == InitLength /\ [][NextLength]_vars

-----------------------------------------------------------------------------
(* pali: the lexer (pali/src/lex.rs)                                        *)

\* A source is the sequence of its characters, all of them ASCII here, so
\* that byte and character indices agree.

DecimalDigits == {"0", "1", "2", "3", "4", "5", "6", "7", "8", "9"}

HexDigits == DecimalDigits \cup {"a", "b", "c", "d", "e", "f", "A", "B", "C", "D", "E", "F"}

\* char::is_whitespace (ASCII)
Whitespace == {" ", "\n", "\t", "\r"}

\* unicode_ident::is_xid_start(c) | (c == '_'), on the letters tried
LabelStart == {"x", "r", "_"}

\* unicode_ident::is_xid_continue(c) | (c == '.')
LabelContinue == LabelStart \cup DecimalDigits \cup {"."}

\* char::to_digit
DigitValue(c) ==
    CASE c \in DecimalDigits ->
            (CHOOSE v \in 0..9 : <<"0", "1", "2", "3", "4", "5", "6", "7", "8", "9">>[v + 1] = c)
      [] c \in {"a", "A"} -> 10
      [] c \in {"b", "B"} -> 11
      [] c \in {"c", "C"} -> 12
      [] c \in {"d", "D"} -> 13
      [] c \in {"e", "E"} -> 14
      [] c \in {"f", "F"} -> 15

\* u16::from_str_radix: an empty literal and a value above u16::MAX are errors
RECURSIVE RadixValue(_, _, _)
RadixValue(literal, radix, so_far) ==
    IF literal = <<>> THEN so_far
    ELSE RadixValue(Tail(literal), radix, so_far * radix + DigitValue(Head(literal)))

from_str_radix(literal, radix) ==
    IF literal = <<>> THEN [ok |-> FALSE, error |-> "invalid numeric literal"]
    ELSE IF RadixValue(literal, radix, 0) > 65535
    THEN [ok |-> FALSE, error |-> "invalid numeric literal"]
    ELSE [ok |-> TRUE, value |-> RadixValue(literal, radix, 0)]

\* str::find with a predicate "not in the set": the index of the first
\* character outside the set, or the default when there is none
FindOutside(text, set, default) ==
    IF \E i \in DOMAIN text : text[i] \notin set
    THEN (CHOOSE i \in DOMAIN text :
              text[i] \notin set /\ \A j \in 1..(i - 1) : text[j] \in set) - 1
    ELSE default

\* str::find of a character
FindChar(text, c, default) == FindOutside(text, {t \in {text[i] : i \in DOMAIN text} : t # c}, default)

\* what one call of next() leaves: the value yielded and the lexer's fields
Yield(value, rest, at, failed) ==
    [yielded |-> value, unlexed |-> rest, index |-> at, errored |-> failed]

None == [kind |-> "None"]

SomeOk(token_kind, value, from, to) ==
    [kind |-> "Ok", token_kind |-> token_kind, value |-> value, source_span |-> <<from, to>>]

SomeErr(message) == [kind |-> "Err", error |-> message]

LexerPanic == [kind |-> "panic"]

\* the Started::String arm
LexString(unlexed_, index_) ==
    IF FindChar(Tail(unlexed_), "\"", -1) = -1
    THEN Yield(SomeErr("unterminated string literal"), unlexed_, index_, TRUE)
    ELSE Yield(SomeOk("String",
                      SubSeq(unlexed_, 2, FindChar(Tail(unlexed_), "\"", -1) + 1),
                      index_, index_ + FindChar(Tail(unlexed_), "\"", -1) + 2),
               SubSeq(unlexed_, FindChar(Tail(unlexed_), "\"", -1) + 3, Len(unlexed_)),
               index_ + FindChar(Tail(unlexed_), "\"", -1) + 2,
               FALSE)

\* the radix of the Started::Number arm
Radix(unlexed_) ==
    IF Head(unlexed_) = "0" /\ Len(unlexed_) >= 2 /\ unlexed_[2] \in {"b", "o", "x"}
    THEN (CASE unlexed_[2] = "b" -> 2 [] unlexed_[2] = "o" -> 8 [] unlexed_[2] = "x" -> 16)
    ELSE 10

RadixDigits(radix) ==
    { c \in HexDigits : DigitValue(c) < radix }

\* end_index of the Started::Number arm: with a prefix the default of
\* unwrap_or is the length of the whole rest, and 2 is added to it too
NumberEnd(unlexed_) ==
    IF Radix(unlexed_) = 10
    THEN FindOutside(unlexed_, RadixDigits(10), Len(unlexed_))
    ELSE FindOutside(SubSeq(unlexed_, 3, Len(unlexed_)), RadixDigits(Radix(unlexed_)),
                     Len(unlexed_)) + 2

\* the Started::Number arm: the slice past the end of the rest panics; an
\* error of from_str_radix is returned with the literal consumed and errored
\* left as it is
LexNumber(unlexed_, index_, errored_) ==
    IF NumberEnd(unlexed_) > Len(unlexed_) THEN Yield(LexerPanic, unlexed_, index_, errored_)
    ELSE IF from_str_radix(SubSeq(unlexed_, IF Radix(unlexed_) = 10 THEN 1 ELSE 3,
                                  NumberEnd(unlexed_)),
                           Radix(unlexed_)).ok
    THEN Yield(SomeOk("Number",
                      from_str_radix(SubSeq(unlexed_, IF Radix(unlexed_) = 10 THEN 1 ELSE 3,
                                            NumberEnd(unlexed_)),
                                     Radix(unlexed_)).value,
                      index_, index_ + NumberEnd(unlexed_)),
               SubSeq(unlexed_, NumberEnd(unlexed_) + 1, Len(unlexed_)),
               index_ + NumberEnd(unlexed_), errored_)
    ELSE Yield(SomeErr("invalid numeric literal"),
               SubSeq(unlexed_, NumberEnd(unlexed_) + 1, Len(unlexed_)),
               index_ + NumberEnd(unlexed_), errored_)

\* the names of Register: r0 to r31, in either case
RegisterNames ==
    { <<r, d>> : r \in {"r", "R"}, d \in DecimalDigits }
    \cup { <<r, d1, d2>> : r \in {"r", "R"}, d1 \in {"1", "2"}, d2 \in DecimalDigits }
    \cup { <<r, "3", d2>> : r \in {"r", "R"}, d2 \in {"0", "1"} }

\* the kind of a label literal made of the characters tried: a register, a
\* segment permission, or a label
LiteralKind(literal) ==
    CASE literal \in RegisterNames -> "Register"
      [] literal \in {<<"x">>, <<"r">>, <<"r", "x">>} -> "SegmentPermissions"
      [] OTHER -> "Label"

\* the Started::Label arm
LexLabel(unlexed_, index_) ==
    Yield(SomeOk(LiteralKind(SubSeq(unlexed_, 1,
                                    FindOutside(unlexed_, LabelContinue, Len(unlexed_)))),
                 SubSeq(unlexed_, 1, FindOutside(unlexed_, LabelContinue, Len(unlexed_))),
                 index_, index_ + FindOutside(unlexed_, LabelContinue, Len(unlexed_))),
          SubSeq(unlexed_, FindOutside(unlexed_, LabelContinue, Len(unlexed_)) + 1,
                 Len(unlexed_)),
          index_ + FindOutside(unlexed_, LabelContinue, Len(unlexed_)),
          FALSE)

\* the loop of Lexer::next on a lexer that has not errored
RECURSIVE LexLoop(_, _)
LexLoop(unlexed_, index_) ==
    IF unlexed_ = <<>> THEN Yield(None, unlexed_, index_, FALSE)
    ELSE CASE Head(unlexed_) = "(" ->
                 Yield(SomeOk("LeftParen", <<>>, index_, index_ + 1),
                       Tail(unlexed_), index_ + 1, FALSE)
           [] Head(unlexed_) = ")" ->
                 Yield(SomeOk("RightParen", <<>>, index_, index_ + 1),
                       Tail(unlexed_), index_ + 1, FALSE)
           [] Head(unlexed_) = ";" ->
                 LexLoop(SubSeq(unlexed_, FindChar(unlexed_, "\n", Len(unlexed_)) + 1,
                                Len(unlexed_)),
                         index_ + FindChar(unlexed_, "\n", Len(unlexed_)))
           [] Head(unlexed_) \in Whitespace -> LexLoop(Tail(unlexed_), index_ + 1)
           [] Head(unlexed_) = "\"" -> LexString(unlexed_, index_)
           [] Head(unlexed_) \in DecimalDigits -> LexNumber(unlexed_, index_, FALSE)
           [] Head(unlexed_) \in LabelStart -> LexLabel(unlexed_, index_)
           [] OTHER -> Yield(SomeErr("encountered invalid character in input"),
                             unlexed_, index_, TRUE)

\* Lexer::next
LexerNextOf(unlexed_, index_, errored_) ==
    IF errored_ THEN Yield(None, unlexed_, index_, errored_)
    ELSE LexLoop(unlexed_, index_)

-----------------------------------------------------------------------------
(* pali: the tokens of a source                                             *)

\* the most characters of a source made of every character tried
MaxSourceLen == 3

\* the most calls of next() after as many calls as the source has characters
MaxEndCalls == 2

TestedCharacters == {"(", "0", "x", "#", "\"", " ", ";"}

\* the sources: every short one, and longer ones with a number above
\* u16::MAX, a number with a prefix, a comment line and a string
TestedSources ==
    SeqsUpTo(TestedCharacters, MaxSourceLen)
    \cup { <<"9", "9", "9", "9", "9">>,
           <<"9", "9", "9", "9", "9", "(", "x">>,
           <<"6", "5", "5", "3", "5", ")">>,
           <<"0", "x", "f", "F", " ", "0", "b", "2">>,
           <<";", "#", "\n", "r", "0", "(">>,
           <<"\"", "#", "\"", "x", ".", "r">> }

InitLexer ==
    /\ IdleEmulator
    /\ overflow_checks = FALSE
    /\ IdleCodec
    /\ IdleAssembler
    /\ source \in TestedSources
    /\ unlexed = source
    /\ lexer_index = 0
    /\ errored = FALSE
    /\ yielded = <<>>

\* one call of Lexer::next; after a panic there is no lexer to call
LexerNext ==
    /\ Len(yielded) < Len(source) + MaxEndCalls
    /\ IF yielded = <<>> THEN TRUE ELSE yielded[Len(yielded)] # LexerPanic
    /\ yielded' = Append(yielded, LexerNextOf(unlexed, lexer_index, errored).yielded)
    /\ unlexed' = LexerNextOf(unlexed, lexer_index, errored).unlexed
    /\ lexer_index' = LexerNextOf(unlexed, lexer_index, errored).index
    /\ errored' = LexerNextOf(unlexed, lexer_index, errored).errored
    /\ UNCHANGED source
    /\ UNCHANGED samaVars
    /\ UNCHANGED pokiVars
    /\ UNCHANGED paliVars

NextLexer ==
    \/ LexerNext

SpecLexer == InitLexer /\ [][NextLexer]_vars

-----------------------------------------------------------------------------
(* Properties of the poki codec                                             *)

\* C1: deserialize applied to the bytes serialize wrote for a Poki whose sizes
\* all fit in u16 returns a Poki equal to it: the same eight segments and the
\* same unresolved table.
C1_RoundTrip ==
    codec = "read" => (decoded.ok /\ decoded.value = poki)

\* a Poki with relocations, a label outside the BMP, an empty label and
\* unresolved symbols was written big-endian and read back
C1_Witness ==
    /\ codec = "read"
    /\ decoded.ok
    /\ big_endian
    /\ Len(poki.unresolved_table) = 3
    /\ \E i \in 1..8 :
          /\ Len(poki.segments[i].relocation_table) = 2
          /\ Len(poki.segments[i].export_table) = 2
          /\ poki.segments[i].export_table[1].label = <<97, 128512>>
    /\ Len(stream) > 64

-----------------------------------------------------------------------------
(* Properties of the emulator                                               *)

\* a step() call completed in this transition
StepCompleted == steps' = steps + 1

\* C2: register 0 holds 0 throughout: a read of index 0 returns 0 and a write
\* to index 0 is discarded, so the register file's slot 0 never leaves 0.
C2_ZeroRegisterHoldsZero ==
    /\ RegistersIndex(registers, 0) = 0
    /\ registers[0] = 0

\* C3: the interrupt channel never holds more than one pending interrupt.
C3_InterruptExclusivity == Len(channel) <= 1

\* a second device was turned away while an interrupt was pending
C3_Witness ==
    /\ Len(channel) = 1
    /\ \E d \in DeviceIds : handles[d].result = "TrySendError"

\* C4: a step() entered with an interrupt pending only serves it: it executes
\* no instruction, and when it returns IPC is the program counter of before,
\* PC is IV, the CPU is privileged, bit 0 of IM[0] is set, the channel is empty
\* and the general registers and the RAM are as before.
C4_HardwareInterruptService ==
    [][/\ (cpu = "idle" /\ IsFull(channel) /\ (cpu' # cpu \/ StepCompleted))
           => /\ cpu' = "masked"
              /\ ~StepCompleted
              /\ program_counter' = program_counter
              /\ registers' = registers
              /\ ram' = ram
       /\ (cpu = "masked" /\ (cpu' # cpu \/ StepCompleted))
           => /\ StepCompleted
              /\ cpu' = "idle"
              /\ last_step'.kind = "hardware_interrupt"
              /\ control_status_registers'.ipc = program_counter
              /\ program_counter' = control_status_registers.iv
              /\ control_status_registers'.iv = control_status_registers.iv
              /\ privileged'
              /\ control_status_registers'.im[0] % 2 = 1
              /\ channel' = <<>>
              /\ registers' = registers
              /\ device_calls' = device_calls
              /\ ram' = ram]_vars

\* an interrupt was served at program counter 7
C4_Witness ==
    /\ last_step.kind = "hardware_interrupt"
    /\ last_step.pc = 7
    /\ control_status_registers.ipc = 7
    /\ program_counter = VectorAddress
    /\ steps = 1

\* C5 as stated: the word a device d enqueues with context c, which the
\* serving step() copies to IC, is (d << 8) | c.
C5_ContextHighByteIsDevice ==
    [][/\ \A d \in DeviceIds :
             (handles[d].at = "send" /\ handles'[d].result = "Ok")
                 => channel' = <<256 * d + handles[d].context>>
       /\ (cpu = "masked" /\ StepCompleted)
             => control_status_registers'.ic = Head(channel)]_vars

\* C5 amended: the word a device d enqueues with context c, which the serving
\* step() copies to IC, is (c << 8) | d: the low byte is the device index.
C5_ContextLowByteIsDevice ==
    [][/\ \A d \in DeviceIds :
             (handles[d].at = "send" /\ handles'[d].result = "Ok")
                 => channel' = <<256 * handles[d].context + d>>
       /\ (cpu = "masked" /\ StepCompleted)
             => control_status_registers'.ic = Head(channel)]_vars

\* device 3 raised context 0x55 and the interrupt was served with IC = 0x5503
C5_Witness ==
    /\ last_step.kind = "hardware_interrupt"
    /\ handles[3].result = "Ok"
    /\ handles[3].context = 85
    /\ control_status_registers.ic = 21763

\* C6: while step() is between setting the mask and draining the channel, the
\* global mask bit of the table that try_interrupt reads is set.
C6_HandleMaskSetBeforeDrain ==
    cpu = "masked" => interrupt_mask[0] % 2 = 1

\* C7: try_interrupt by device d returns InterruptMasked and enqueues nothing
\* whenever bit (d & 0xF) of IM[d >> 4] or bit 0 of IM[0] is set in the mask
\* table it reads.
C7_MaskedInterruptRejected ==
    [][\A d \in DeviceIds :
          (/\ handles[d].at = "idle"
           /\ handles'[d] # handles[d]
           /\ \/ interrupt_mask[0] % 2 = 1
              \/ (interrupt_mask[d \div 16] \div 2^(d % 16)) % 2 = 1)
              => /\ handles'[d].result = "InterruptMasked"
                 /\ handles'[d].at = "idle"
                 /\ channel' = channel]_vars

\* a device was rejected by the global bit, with an empty channel
C7_Witness ==
    /\ interrupt_mask[0] = 1
    /\ handles[3].result = "InterruptMasked"
    /\ handles[17].result = "InterruptMasked"
    /\ channel = <<>>

\* C8: an unmasked try_interrupt goes on to offer its word; the offer succeeds
\* and leaves the word pending when the channel is empty, and fails when the
\* channel is full, leaving the pending word as it was.
C8_TrySendEmptyOrBusy ==
    [][\A d \in DeviceIds :
          /\ (/\ handles[d].at = "idle"
              /\ handles'[d] # handles[d]
              /\ interrupt_mask[0] % 2 = 0
              /\ (interrupt_mask[d \div 16] \div 2^(d % 16)) % 2 = 0)
                 => handles'[d].at = "send" /\ channel' = channel
          /\ (handles[d].at = "send" /\ handles'[d] # handles[d])
                 => IF channel = <<>>
                    THEN /\ handles'[d].result = "Ok"
                         /\ Len(channel') = 1
                         /\ channel'[1] % 256 = d
                         /\ channel'[1] \div 256 = handles[d].context
                    ELSE /\ handles'[d].result = "TrySendError"
                         /\ channel' = channel]_vars

\* device 17 was turned away while the word of device 3 stayed pending
C8_Witness ==
    /\ handles[17].result = "TrySendError"
    /\ handles[3].result = "Ok"
    /\ channel = <<21763>>

\* C9: a software interrupt with context c for an instruction of length L at
\* program counter p sets bit 0 of IM[0], IPC = (p + L) mod 2^16, IC = c << 8,
\* PC = IV and privileged, and changes no general register and no RAM word.
C9_SoftwareInterruptEntry ==
    [][(StepCompleted /\ last_step'.kind = "software_interrupt")
          => /\ control_status_registers'.im[0] % 2 = 1
             /\ control_status_registers'.ipc =
                    (program_counter + last_step'.length) % 65536
             /\ control_status_registers'.ic = 256 * last_step'.context
             /\ control_status_registers'.ic % 256 = 0
             /\ program_counter' = control_status_registers.iv
             /\ privileged'
             /\ registers' = registers
             /\ ram' = ram]_vars

\* a software interrupt was raised at address 0xFFFF, so that IPC wrapped to 0
C9_Witness ==
    /\ last_step.kind = "software_interrupt"
    /\ last_step.pc = 65535
    /\ last_step.length = 1
    /\ control_status_registers.ipc = 0
    /\ program_counter = VectorAddress

\* the context an unprivileged dei, deo, rcsr or wcsr raises
PrivilegeFaultContext ==
    [o \in {Opcode.dei, Opcode.deo, Opcode.rcsr, Opcode.wcsr} |->
        IF o = Opcode.dei THEN 12
        ELSE IF o = Opcode.deo THEN 10
        ELSE IF o = Opcode.rcsr THEN 20
        ELSE 18]

\* C10: in user mode dei, deo, rcsr and wcsr raise a software interrupt with
\* context 0b00001100, 0b00001010, 0b00010100, 0b00010010 and length 1, make no
\* device call, write no general register, and write no CSR but those of the
\* interrupt entry.
C10_PrivilegedOpcodesTrap ==
    [][(StepCompleted /\ ~privileged /\ cpu = "idle" /\ ~IsFull(channel)
            /\ opc \in DOMAIN PrivilegeFaultContext)
          => /\ last_step'.kind = "software_interrupt"
             /\ last_step'.context = PrivilegeFaultContext[opc]
             /\ last_step'.length = 1
             /\ device_calls' = device_calls
             /\ registers' = registers
             /\ control_status_registers' =
                    [control_status_registers EXCEPT
                        !.im[0] = IF @ % 2 = 1 THEN @ ELSE @ + 1,
                        !.ipc = (program_counter + 1) % 65536,
                        !.ic = 256 * PrivilegeFaultContext[opc]]]_vars

\* a dei addressed to the attached device 3 trapped in user mode
C10_Witness ==
    /\ last_step.kind = "software_interrupt"
    /\ last_step.opc = Opcode.dei
    /\ last_step.context = 12
    /\ 3 \in devices
    /\ \E i \in {1, 2} : registers[i] = 853
    /\ device_calls = <<>>
    /\ control_status_registers.ic = 3072

\* a step() call, entered with no interrupt pending, completed in this
\* transition: the unprimed state is the one the instruction was fetched in
InstructionStep == StepCompleted /\ cpu = "idle" /\ ~IsFull(channel)

\* C11: swpr in privileged mode sets PC = IPC and privileged = false and
\* advances PC no further; swpr in user mode raises a software interrupt with
\* context 0 whose IPC is the address after the swpr.
C11_SwitchPrivilege ==
    [][(InstructionStep /\ opc = Opcode.swpr)
          => IF privileged
             THEN /\ program_counter' = control_status_registers.ipc
                  /\ ~privileged'
                  /\ control_status_registers' = control_status_registers
                  /\ registers' = registers
                  /\ ram' = ram
             ELSE /\ last_step'.kind = "software_interrupt"
                  /\ last_step'.context = 0
                  /\ control_status_registers'.ic = 0
                  /\ control_status_registers'.ipc = (program_counter + 1) % 65536
                  /\ program_counter' = control_status_registers.iv
                  /\ privileged']_vars

\* a swpr dropped to user mode at 0xFFFF, where a second swpr trapped with
\* IPC wrapped to 0
C11_Witness ==
    /\ steps = 2
    /\ last_step.opc = Opcode.swpr
    /\ last_step.kind = "software_interrupt"
    /\ last_step.pc = 65535
    /\ control_status_registers.ipc = 0
    /\ control_status_registers.ic = 0
    /\ program_counter = VectorAddress
    /\ privileged

\* the instruction fetched is one the opcode table defines, it names no
\* reserved CSR and it addresses no device index 0
DefinedInstruction ==
    /\ opc \in DefinedOpcodes
    /\ opc = Opcode.rcsr => src_idx \notin ReservedCsrs
    /\ opc = Opcode.wcsr => dst_idx \notin ReservedCsrs
    /\ opc \in {Opcode.dei, Opcode.deo} => HighByte(src) # 0

\* C12: step() does not panic on a defined opcode with non-reserved CSR indices
\* and a nonzero device index, whatever the registers, the RAM and the device
\* table hold.
C12_NoPanicOnDefinedInstruction ==
    [][(InstructionStep /\ DefinedInstruction) => ~panicked']_vars

\* C13: add, sub and addi store their result modulo 2^16 and do not panic; the
\* address sums of ldio, stio and jal and the program counter increment wrap
\* modulo 2^16 as well.
C13_WrappingArithmetic ==
    [][InstructionStep
          => /\ opc = Opcode.add
                  => ~panicked' /\ registers'[dst_idx] = (dst + src) % 65536
             /\ opc = Opcode.sub
                  => ~panicked' /\ registers'[dst_idx] = (dst - src + 65536) % 65536
             /\ opc = Opcode.addi
                  => ~panicked' /\ registers'[dst_idx] = (src + imm) % 65536
             /\ opc = Opcode.ldio
                  => /\ ~panicked'
                     /\ registers'[dst_idx] =
                            (IF (src + imm) % 65536 \in DOMAIN ram
                             THEN ram[(src + imm) % 65536] ELSE 0)
             /\ opc = Opcode.stio
                  => /\ ~panicked'
                     /\ (IF (src + imm) % 65536 \in DOMAIN ram'
                         THEN ram'[(src + imm) % 65536] ELSE 0) = dst
             /\ opc = Opcode.jal
                  => ~panicked' /\ program_counter' = (src + imm) % 65536
             /\ opc \in {Opcode.add, Opcode.sub}
                  => program_counter' = (program_counter + 1) % 65536
             /\ opc \in {Opcode.addi, Opcode.ldio, Opcode.stio}
                  => program_counter' = (program_counter + 2) % 65536]_vars

\* 0x8000 - 1 = 0x7FFF was computed by a sub at 0xFFFF, and PC wrapped to 0
C13_Witness ==
    /\ last_step.opc = Opcode.sub
    /\ last_step.kind = "executed"
    /\ last_step.pc = 65535
    /\ program_counter = 0
    /\ registers[1] = 32767
    /\ registers[2] = 1

\* the shifts of a 16-bit word by any number of places
LogicalLeft(x, n) == IF n >= 16 THEN 0 ELSE (x * 2^n) % 65536

LogicalRight(x, n) == IF n >= 16 THEN 0 ELSE x \div 2^n

ArithmeticRight(x, n) ==
    IF x < 32768 THEN LogicalRight(x, n)
    ELSE IF n >= 16 THEN 65535
    ELSE (x \div 2^n) + (65536 - 2^(16 - n))

\* the shift convention: a positive amount shifts in the nominal direction of
\* the opcode, another amount shifts the other way by its negation, which for
\* sra and srai is a logical left shift
ShiftByConvention(o, x, amount) ==
    IF amount > 0
    THEN IF o \in {Opcode.sll, Opcode.slli} THEN LogicalLeft(x, amount)
         ELSE IF o = Opcode.srl THEN LogicalRight(x, amount)
         ELSE ArithmeticRight(x, amount)
    ELSE IF o \in {Opcode.sll, Opcode.slli} THEN LogicalRight(x, -amount)
         ELSE LogicalLeft(x, -amount)

\* C14: sll, srl, sra, slli and srai complete without panic for every operand
\* and every signed 16-bit amount (R[src], or imm for slli and srai) and store
\* the operand shifted by the convention.
C14_ShiftConvention ==
    [][/\ (InstructionStep /\ opc \in {Opcode.sll, Opcode.srl, Opcode.sra})
          => /\ ~panicked'
             /\ registers'[dst_idx] = ShiftByConvention(opc, dst, AsSigned(src))
       /\ (InstructionStep /\ opc \in {Opcode.slli, Opcode.srai})
          => /\ ~panicked'
             /\ registers'[dst_idx] = ShiftByConvention(opc, src, AsSigned(imm))]_vars

\* a 16-bit word read as a signed value
Signed16(x) == ((x + 32768) % 65536) - 32768

\* the condition of each branch opcode on R[dst] and R[src]
BranchCondition(o, d, s) ==
    IF o = Opcode.beq THEN d = s
    ELSE IF o = Opcode.bne THEN d # s
    ELSE IF o = Opcode.blt THEN Signed16(d) < Signed16(s)
    ELSE IF o = Opcode.bge THEN Signed16(d) >= Signed16(s)
    ELSE IF o = Opcode.bltu THEN d < s
    ELSE d >= s

\* C15: a branch whose condition holds sets PC = imm, and otherwise PC advances
\* by 2; blt and bge compare as signed and bltu and bgeu as unsigned values.
\* From the all-zero state with ram = [addi r1,r0,1; 1; beq r0,r0,10; 10], two
\* steps give R[1] = 1 and PC = 10.
C15_Branches ==
    /\ [][(InstructionStep /\ opc \in {Opcode.beq, Opcode.bne, Opcode.blt, Opcode.bge,
                                       Opcode.bltu, Opcode.bgeu})
             => /\ ~panicked'
                /\ registers' = registers
                /\ program_counter' = IF BranchCondition(opc, dst, src) THEN imm
                                      ELSE (program_counter + 2) % 65536]_vars
    /\ []((ram = ExampleImage.ram /\ steps = 2 /\ host_writes = 0)
             => (RegistersIndex(registers, 1) = 1 /\ program_counter = 10))

\* the two steps of the example were made, the second one a taken beq
C15_Witness ==
    /\ ram = ExampleImage.ram
    /\ steps = 2
    /\ host_writes = 0
    /\ last_step.opc = Opcode.beq
    /\ last_step.kind = "jump"
    /\ last_step.pc = 2
    /\ registers[1] = 1
    /\ program_counter = 10

\* C16: jal sets R[dst] = PC + 2 and PC = R[src] + imm, both modulo 2^16, with
\* R[src] the value of before the write of R[dst], and advances PC no further.
C16_JumpAndLink ==
    [][(InstructionStep /\ opc = Opcode.jal)
          => /\ ~panicked'
             /\ registers'[dst_idx] = (program_counter + 2) % 65536
             /\ \A i \in 1..31 : i # dst_idx => registers'[i] = registers[i]
             /\ program_counter' = (src + imm) % 65536
             /\ last_step'.kind = "jump"]_vars

\* jal r1, r1, 1 at 0xFFFF with R[1] = 853: the link address wrapped to 1 and
\* the target is 854
C16_Witness ==
    /\ last_step.opc = Opcode.jal
    /\ last_step.pc = 65535
    /\ RamIndex(ram, 65535) = InstructionWord(Opcode.jal, 1, 1)
    /\ RamIndex(ram, 0) = 1
    /\ registers[1] = 1
    /\ program_counter = 854

\* C17: jsh adds to PC the 10-bit field instr[6..16] sign-extended to 16 bits,
\* modulo 2^16, takes no immediate word and advances PC no further.
C17_JumpShort ==
    [][(InstructionStep /\ opc = Opcode.jsh)
          => /\ ~panicked'
             /\ last_step'.length = 1
             /\ registers' = registers
             /\ ram' = ram
             /\ program_counter' =
                    (program_counter + 65536
                       + (IF instr \div 64 >= 512 THEN (instr \div 64) - 1024
                          ELSE instr \div 64)) % 65536]_vars

\* a jsh at 0 with the field 0x3FF (-1) moved PC back to 0xFFFF
C17_Witness ==
    /\ last_step.opc = Opcode.jsh
    /\ last_step.pc = 0
    /\ steps = 1
    /\ RamIndex(ram, 0) = Opcode.jsh + 64 * 1023
    /\ program_counter = 65535

\* C18: a step() that executed an opcode without jumping, taking a branch or
\* raising a software interrupt advanced PC, modulo 2^16, by 2 if the opcode
\* takes an immediate (bit 3 set and not jsh) and by 1 otherwise.
C18_ProgramCounterAdvance ==
    [][(InstructionStep /\ last_step'.kind = "executed")
          => program_counter' =
                 (program_counter
                    + (IF (opc \div 8) % 2 = 1 /\ opc # 41 THEN 2 ELSE 1)) % 65536]_vars

\* a branch at 0xFFFF was not taken and PC wrapped to 1
C18_Witness ==
    /\ last_step.kind = "executed"
    /\ last_step.opc = Opcode.bne
    /\ last_step.pc = 65535
    /\ last_step.length = 2
    /\ steps = 1
    /\ program_counter = 1

-----------------------------------------------------------------------------
(* Properties of the pali assembler                                         *)

\* the qualified paths of the blocks of a sequence of codes, one for every
\* block, in the order of the source
RECURSIVE QualifiedPaths(_, _)
QualifiedPaths(codes, ctx) ==
    IF codes = <<>> THEN <<>>
    ELSE (IF Head(codes).kind = "Block"
          THEN <<AbsoluteLabel(ctx, Head(codes).label)>>
               \o QualifiedPaths(Head(codes).contents,
                                 AbsoluteLabel(ctx, Head(codes).label))
          ELSE <<>>)
         \o QualifiedPaths(Tail(codes), ctx)

RECURSIVE ProgramPathsFrom(_, _)
ProgramPathsFrom(prog, k) ==
    IF k > 8 THEN <<>>
    ELSE QualifiedPaths(prog.segments[k], <<>>) \o ProgramPathsFrom(prog, k + 1)

ProgramPaths(prog) == ProgramPathsFrom(prog, 1)

\* some qualified path is the path of two blocks of the program
DefinesTwice(prog) ==
    \E i, j \in DOMAIN ProgramPaths(prog) :
        i # j /\ ProgramPaths(prog)[i] = ProgramPaths(prog)[j]

\* C19: a program that assemble accepts has a symbol table whose keys are the
\* qualified paths of its blocks, each the path of one block only; and a
\* program in which two blocks have the same qualified path is not assembled:
\* assemble returns the error of a label defined more than once.
C19_SymbolTableDisjoint ==
    assembler = "done" =>
        /\ assembled.ok =>
               /\ ~DefinesTwice(program)
               /\ symbol_table(program).ok
               /\ DOMAIN symbol_table(program).value
                      = { ProgramPaths(program)[i] : i \in DOMAIN ProgramPaths(program) }
        /\ DefinesTwice(program) =>
               /\ ~assembled.ok
               /\ assembled.error = "label is defined more than once"

\* the exports of the program that its symbol table does not hold
AbsentExports(prog) ==
    { i \in DOMAIN prog.exports :
        prog.exports[i].label \notin DOMAIN symbol_table(prog).value }

\* C20: when the symbol table of the program lacks an exported label,
\* assemble returns the error of an undefined export, with the label and the
\* span of the first such export, and no Poki; when the symbol table of a
\* program with exports cannot be built, assemble returns no Poki either.
C20_UndefinedExport ==
    assembler = "done" =>
        /\ (symbol_table(program).ok /\ AbsentExports(program) # {}) =>
               /\ ~assembled.ok
               /\ assembled.error = "label exported, but is not defined"
               /\ \E i \in AbsentExports(program) :
                      /\ \A j \in AbsentExports(program) : i <= j
                      /\ assembled.label = program.exports[i].label
                      /\ assembled.spans = <<program.exports[i].source_span>>
        /\ (~symbol_table(program).ok /\ program.exports # <<>>) => ~assembled.ok

\* the export form names a, which block a of segment 1 defines, and then x,
\* which no block defines: the error cites x at the span of the second export
C20_Witness ==
    /\ assembler = "done"
    /\ program.exports = <<Label(LabelA, 101), Label(LabelX, 102)>>
    /\ program.segments[2] = SegmentSource(2, 20)
    /\ symbol_table(program).ok
    /\ AbsentExports(program) = {2}
    /\ ~assembled.ok
    /\ assembled.label = LabelX
    /\ assembled.spans = <<102>>

\* the blocks of a sequence of codes that starts at the given offset of its
\* segment: for each block its label and the offset of its first word
RECURSIVE BlockSites(_, _)
BlockSites(codes, offset) ==
    IF codes = <<>> THEN <<>>
    ELSE (IF Head(codes).kind = "Block"
          THEN <<[label |-> Head(codes).label.label, offset |-> offset]>>
               \o BlockSites(Head(codes).contents, offset)
          ELSE <<>>)
         \o BlockSites(Tail(codes), offset + size(Head(codes)))

\* C21: in an assembled program every block whose label is exported has, in
\* the export table of its own segment, the entry of its label with the offset
\* of the block counted in words from the start of that segment.
C21_ExportOffsets ==
    (assembler = "done" /\ assembled.ok) =>
        \A k \in 1..8 :
            \A b \in DOMAIN BlockSites(program.segments[k], 0) :
                (\E i \in DOMAIN program.exports :
                     program.exports[i].label
                         = BlockSites(program.segments[k], 0)[b].label)
                => \E n \in DOMAIN assembled.value.segments[k].export_table :
                       assembled.value.segments[k].export_table[n]
                           = BlockSites(program.segments[k], 0)[b]

\* the export table entries of all eight segments that carry the label
ExportEntries(value, text) ==
    { <<k, n>> \in (1..8) \X (1..64) :
        /\ n \in DOMAIN value.segments[k].export_table
        /\ value.segments[k].export_table[n].label = text }

\* C22: in an assembled program every exported label has one export table
\* entry over the eight segments, and it is in the segment that the symbol
\* table gives for the label.
C22_ExportAtDefiningSite ==
    (assembler = "done" /\ assembled.ok) =>
        \A i \in DOMAIN program.exports :
            /\ Cardinality(ExportEntries(assembled.value, program.exports[i].label)) = 1
            /\ \A e \in ExportEntries(assembled.value, program.exports[i].label) :
                   e[1] = symbol_table(program).value[program.exports[i].label]
                              .segment_index + 1

\* the label immediates of a sequence of codes that starts at the given
\* offset of its segment: for each the label, the offset of the instruction
\* word and the offset of the word that holds the immediate
RECURSIVE LabelUses(_, _)
LabelUses(codes, offset) ==
    IF codes = <<>> THEN <<>>
    ELSE (CASE Head(codes).kind = "Block" -> LabelUses(Head(codes).contents, offset)
            [] Head(codes).kind = "ImmediateInstruction" /\ Head(codes).imm.kind = "Label" ->
                  <<[label |-> Head(codes).imm.label.label, at |-> offset,
                     offset |-> offset + 1,
                     word |-> InstructionWord(Head(codes).opcode, Head(codes).dst,
                                              Head(codes).src)]>>
            [] Head(codes).kind = "JSH" /\ Head(codes).imm.kind = "Label" ->
                  <<[label |-> Head(codes).imm.label.label, at |-> offset,
                     offset |-> offset, word |-> Opcode.jsh]>>
            [] OTHER -> <<>>)
         \o LabelUses(Tail(codes), offset + size(Head(codes)))

\* C23: in an assembled program each segment has one relocation entry for
\* each label immediate and none besides; the instruction word is at the
\* offset o of the instruction, with a zero immediate field for jsh and
\* followed by the word 0 otherwise; and for a label that the symbol table
\* holds the entry has the offset o + 1 (o for jsh) and the segment index and
\* offset of the symbol. The forward reference of scenario S2 gives the one
\* entry (0, 5, 2).
C23_ResolvedRelocations ==
    (assembler = "done" /\ assembled.ok) =>
        /\ \A k \in 1..8 :
               /\ Len(assembled.value.segments[k].relocation_table)
                      = Len(LabelUses(program.segments[k], 0))
               /\ \A n \in DOMAIN LabelUses(program.segments[k], 0) :
                      /\ assembled.value.segments[k]
                             .contents[LabelUses(program.segments[k], 0)[n].at + 1]
                            = LabelUses(program.segments[k], 0)[n].word
                      /\ assembled.value.segments[k]
                             .contents[LabelUses(program.segments[k], 0)[n].offset + 1]
                            \in {0, Opcode.jsh}
                      /\ LabelUses(program.segments[k], 0)[n].label
                             \in DOMAIN symbol_table(program).value
                         => assembled.value.segments[k].relocation_table[n]
                              = [offset |-> LabelUses(program.segments[k], 0)[n].offset,
                                 segment_index |->
                                     symbol_table(program).value[
                                         LabelUses(program.segments[k], 0)[n].label]
                                         .segment_index,
                                 segment_offset |->
                                     symbol_table(program).value[
                                         LabelUses(program.segments[k], 0)[n].label]
                                         .segment_offset]
        /\ (program.segments[6] = SegmentSource(8, 60) /\ program.segments[7] = <<>>
             /\ program.segments[2] = <<>>)
           => assembled.value.segments[6].relocation_table
                  = <<[offset |-> 0, segment_index |-> 5, segment_offset |-> 2]>>

\* the label immediates of the segments k..8, in the order of the source
RECURSIVE ProgramUsesFrom(_, _)
ProgramUsesFrom(prog, k) ==
    IF k > 8 THEN <<>>
    ELSE LabelUses(prog.segments[k], 0) \o ProgramUsesFrom(prog, k + 1)

\* the labels of a sequence of uses that the symbol table lacks
UnknownLabels(prog, uses) ==
    [n \in DOMAIN SelectSeq(uses, LAMBDA u : u.label \notin DOMAIN symbol_table(prog).value)
        |-> SelectSeq(uses, LAMBDA u : u.label \notin DOMAIN symbol_table(prog).value)[n].label]

\* a sequence without the later occurrences of its elements
RECURSIVE FirstOccurrences(_)
FirstOccurrences(seq) ==
    IF seq = <<>> THEN <<>>
    ELSE <<Head(seq)>> \o FirstOccurrences(SelectSeq(Tail(seq), LAMBDA x : x # Head(seq)))

\* C24: in an assembled program the unresolved table holds the labels used as
\* immediates that the symbol table lacks, each once, in the order of their
\* first use over the segments 0..7; and the relocation entry of each such
\* use has the segment index 0xFFFF and, as segment offset, the index of the
\* label in the unresolved table.
C24_UnresolvedInterned ==
    (assembler = "done" /\ assembled.ok) =>
        /\ assembled.value.unresolved_table
              = FirstOccurrences(UnknownLabels(program, ProgramUsesFrom(program, 1)))
        /\ \A k \in 1..8 :
               \A n \in DOMAIN LabelUses(program.segments[k], 0) :
                   LabelUses(program.segments[k], 0)[n].label
                       \notin DOMAIN symbol_table(program).value
                   => /\ n \in DOMAIN assembled.value.segments[k].relocation_table
                      /\ assembled.value.segments[k].relocation_table[n].segment_index
                             = 65535
                      /\ assembled.value.segments[k].relocation_table[n].segment_offset
                             \in 0..(Len(assembled.value.unresolved_table) - 1)
                      /\ assembled.value.unresolved_table[
                             assembled.value.segments[k].relocation_table[n]
                                 .segment_offset + 1]
                            = LabelUses(program.segments[k], 0)[n].label

\* segments 5 and 6 both use a, then x twice, and no block defines either:
\* the table is a, x and the last use in segment 6 refers to index 1
C24_Witness ==
    /\ assembler = "done"
    /\ assembled.ok
    /\ program.segments[6] = SegmentSource(6, 60)
    /\ program.segments[7] = SegmentSource(6, 70)
    /\ assembled.value.unresolved_table = <<LabelA, LabelX>>
    /\ assembled.value.segments[7].relocation_table[3].segment_index = 65535
    /\ assembled.value.segments[7].relocation_table[3].segment_offset = 1

\* C25: every relocation entry of an assembled program either names one of
\* the eight segments and an offset inside the contents of that segment, or
\* has the segment index 0xFFFF and an index inside the unresolved table.
C25_RelocationIntegrity ==
    (assembler = "done" /\ assembled.ok) =>
        \A k \in 1..8 :
            \A n \in DOMAIN assembled.value.segments[k].relocation_table :
                \/ /\ assembled.value.segments[k].relocation_table[n].segment_index < 8
                   /\ assembled.value.segments[k].relocation_table[n].segment_offset
                          < Len(assembled.value.segments[
                                    assembled.value.segments[k].relocation_table[n]
                                        .segment_index + 1].contents)
                \/ /\ assembled.value.segments[k].relocation_table[n].segment_index
                          = 65535
                   /\ assembled.value.segments[k].relocation_table[n].segment_offset
                          < Len(assembled.value.unresolved_table)

-----------------------------------------------------------------------------
(* Properties of the instruction encoding                                   *)

\* the instruction of the program, and the opcode that its code stands for
AssembledCode == program.segments[2][1].contents[1]

CodeOpcode(code) ==
    CASE code.kind = "RCSR" -> 20
      [] code.kind = "WCSR" -> 21
      [] OTHER -> code.opcode

\* C27: the first word that the assembler emits for an instruction is
\* opc | (dst << 6) | (src << 11), with the opcodes 0b010100 and 0b010101
\* for rcsr and wcsr; with that word at the program counter, the fields that
\* step() decodes are the opcode and the two operands of the instruction; and
\* (addi r1 r0 42) is assembled to the words 0x0048, 0x002A.
C27_EncodeDecode ==
    /\ (assembler = "done" /\ program \in InstructionPrograms) =>
           /\ assembled.ok
           /\ assembled.value.segments[2].contents[1]
                 = BitOr(BitOr(CodeOpcode(AssembledCode), (AssembledCode.dst * 64) % 65536),
                         (AssembledCode.src * 2048) % 65536)
           /\ AssembledCode = ImmediateInstruction(Opcode.addi, 1, 0, ImmediateNumber(42))
                 => assembled.value.segments[2].contents = <<72, 42>>
    /\ (assembler = "loaded" /\ program \in InstructionPrograms) =>
           /\ instr = assembled.value.segments[2].contents[1]
           /\ opc = CodeOpcode(AssembledCode)
           /\ dst_idx = AssembledCode.dst
           /\ src_idx = AssembledCode.src

\* wcsr with the control register 31 and the register 1 in memory: the
\* decoded fields are 21, 31 and 1
C27_Witness ==
    /\ assembler = "loaded"
    /\ AssembledCode = WCSR(31, 1)
    /\ instr = 21 + 64 * 31 + 2048
    /\ opc = 21
    /\ dst_idx = 31
    /\ src_idx = 1

-----------------------------------------------------------------------------
(* Properties of reading an object file                                     *)

\* the word of the stream at an index, counted from 0
WordAt(at) == FromNeBytes(stream[2 * at + 1], stream[2 * at + 2])

\* C28: when segment 0 has an export table of R words and nothing else, and
\* the size L of its first label is such that L + 2 > R, the file is refused
\* with StringOverrun, for every L up to 0xFFFF.
C28_StringOverrun ==
    (/\ codec = "read"
     /\ Len(stream) >= 2 * (FirstLabelSizeAt + 1)
     /\ SubSeq(stream, 1, 8) = WordsToBytes(Magic)
     /\ WordAt(4) = 0
     /\ WordAt(5) = 0
     /\ WordAt(6) # 0
     /\ WordAt(FirstLabelSizeAt) + 2 > WordAt(6))
    => (~decoded.ok /\ decoded.error = "StringOverrun")

\* C29: a file that ends where an entry of the unresolved table could begin
\* is read with the labels it holds; a file with one byte after its last
\* entry is refused with an I/O error.
C29_UnresolvedEnd ==
    codec = "read" =>
        /\ (read_limit = 2 /\ stream = serialize(poki).bytes)
           => (decoded.ok /\ decoded.value = poki)
        /\ (\E b \in {0, 1} : stream = Append(serialize(poki).bytes, b))
           => (~decoded.ok /\ decoded.error = "IOError")

-----------------------------------------------------------------------------
(* Properties of the lexer                                                  *)

\* C30: once a call of next() has yielded an error, every later call yields
\* the end of the stream.
C30_NothingAfterError ==
    \A i, j \in DOMAIN yielded :
        (i < j /\ yielded[i].kind = "Err") => yielded[j] = None

-----------------------------------------------------------------------------
(* Properties of the control/status registers                               *)

\* a call of the host accessor of the control/status registers was made in
\* this transition
HostCsrAccess == host_writes' = host_writes + 1 /\ host_access'.call # "none"

\* C31: a read or write of CSR 19, 20 or 21 traps: in privileged mode rcsr and
\* wcsr panic at the index, and so does the host accessor, with no general
\* register and no CSR written; in user mode rcsr and wcsr raise their
\* privilege fault in front of the index, which writes no general register and
\* no CSR but IM[0], IPC and IC of the interrupt entry.
C31_ReservedCsrTraps ==
    [][/\ (InstructionStep
              /\ \/ opc = Opcode.rcsr /\ src_idx \in {19, 20, 21}
                 \/ opc = Opcode.wcsr /\ dst_idx \in {19, 20, 21})
          => /\ registers' = registers
             /\ IF privileged
                THEN /\ panicked'
                     /\ last_step'.kind = "panic"
                     /\ control_status_registers' = control_status_registers
                ELSE /\ last_step'.kind = "software_interrupt"
                     /\ last_step'.context = PrivilegeFaultContext[opc]
                     /\ control_status_registers' =
                            [control_status_registers EXCEPT
                                !.im[0] = IF @ % 2 = 1 THEN @ ELSE @ + 1,
                                !.ipc = (program_counter + 1) % 65536,
                                !.ic = 256 * PrivilegeFaultContext[opc]]
       /\ (HostCsrAccess /\ host_access'.index \in {19, 20, 21})
          => /\ host_access'.result = "panic"
             /\ panicked'
             /\ registers' = registers
             /\ control_status_registers' = control_status_registers]_vars

\* a privileged wcsr to CSR 21 panicked and left the registers as they were
C31_Witness ==
    /\ steps = 1
    /\ last_step.kind = "panic"
    /\ last_step.opc = Opcode.wcsr
    /\ RamIndex(ram, 0) = InstructionWord(Opcode.wcsr, 21, 1)
    /\ registers[1] = 65535
    /\ control_status_registers = DistinctCsr
    /\ panicked

\* the register that index i names in the table of the CSRs: IM[0..16] at 0 to
\* 15, IV at 16, IPC at 17, IC at 18, MPC[0..2] at 22 and 23, MPA[0..8] at 24
\* to 31
CsrNamed(i) ==
    IF i <= 15 THEN <<"im", i>>
    ELSE IF i = 16 THEN <<"iv", 0>>
    ELSE IF i = 17 THEN <<"ipc", 0>>
    ELSE IF i = 18 THEN <<"ic", 0>>
    ELSE IF i <= 23 THEN <<"mpc", i - 22>>
    ELSE <<"mpa", i - 24>>

\* the value of the named register
CsrValueOf(csr, name) ==
    IF name[1] \in {"im", "mpc", "mpa"} THEN csr[name[1]][name[2]] ELSE csr[name[1]]

\* the 29 names are different registers
CsrNames == { CsrNamed(i) : i \in (0..18) \cup (22..31) }

\* the wcsr executed by the last step, when the instruction about to be
\* fetched follows it and the host has not written a CSR since that step
AfterWcsr ==
    /\ last_step.kind = "executed"
    /\ last_step.opc = Opcode.wcsr
    /\ program_counter = (last_step.pc + 1) % 65536
    /\ host_access.wrote < steps

\* C35: a privileged wcsr to a non-reserved index i writes the register that i
\* names and leaves the other 28 as they were, a privileged rcsr from i reads
\* the register that i names, and an rcsr from i that follows a wcsr to i
\* returns the value written; the 29 indices name 29 different registers.
C35_CsrRoundTrip ==
    [][(InstructionStep /\ privileged)
          => /\ (opc = Opcode.wcsr /\ dst_idx \notin {19, 20, 21})
                => /\ last_step'.kind = "executed"
                   /\ CsrValueOf(control_status_registers', CsrNamed(dst_idx)) = src
                   /\ \A name \in CsrNames \ {CsrNamed(dst_idx)} :
                          CsrValueOf(control_status_registers', name)
                              = CsrValueOf(control_status_registers, name)
                   /\ Cardinality(CsrNames) = 29
             /\ (opc = Opcode.rcsr /\ src_idx \notin {19, 20, 21})
                => /\ last_step'.kind = "executed"
                   /\ registers'[dst_idx]
                          = CsrValueOf(control_status_registers, CsrNamed(src_idx))
                   /\ control_status_registers' = control_status_registers
                   /\ (AfterWcsr /\ (RamIndex(ram, last_step.pc) \div 64) % 32 = src_idx)
                      => registers'[dst_idx]
                             = RegistersIndex(registers,
                                              RamIndex(ram, last_step.pc) \div 2048)]_vars

\* wcsr 31, r1 wrote 43690 to MPA[7] alone, and rcsr r2, 31 read it back
C35_Witness ==
    /\ steps = 2
    /\ last_step.kind = "executed"
    /\ last_step.opc = Opcode.rcsr
    /\ RamIndex(ram, 0) = InstructionWord(Opcode.wcsr, 31, 1)
    /\ RamIndex(ram, 1) = InstructionWord(Opcode.rcsr, 2, 31)
    /\ registers[1] = 43690
    /\ registers[2] = 43690
    /\ control_status_registers = [DistinctCsr EXCEPT !.mpa[7] = 43690]

-----------------------------------------------------------------------------
(* Properties of the emulator: devices, memory and privilege                *)

\* C32: a privileged deo whose R[src] has a nonzero high byte d does not trap
\* and changes nothing but the program counter, which advances by 1, and the
\* device in slot d: an empty slot gets no call, an occupied one exactly one
\* call output(low byte of R[src], R[dst]).
C32_DeviceOutput ==
    [][(InstructionStep /\ privileged /\ opc = Opcode.deo /\ src \div 256 # 0)
          => /\ last_step'.kind = "executed"
             /\ ~panicked'
             /\ program_counter' = (program_counter + 1) % 65536
             /\ privileged'
             /\ registers' = registers
             /\ ram' = ram
             /\ control_status_registers' = control_status_registers
             /\ channel' = channel
             /\ device_calls' =
                    IF src \div 256 \in devices
                    THEN Append(device_calls,
                                [call |-> "output", device_index |-> src \div 256,
                                 context |-> src % 256, value |-> dst])
                    ELSE device_calls]_vars

\* a privileged deo addressed to the empty slot 128 only advanced the program
\* counter
C32_Witness ==
    /\ steps = 1
    /\ last_step.kind = "executed"
    /\ last_step.opc = Opcode.deo
    /\ last_step.pc = 65535
    /\ program_counter = 0
    /\ RamIndex(ram, 65535) = InstructionWord(Opcode.deo, 2, 1)
    /\ registers[1] = 32768
    /\ registers[2] = 853
    /\ 128 \notin devices
    /\ device_calls = <<>>
    /\ privileged

\* the address a load or store uses: R[src], plus the immediate for ldio and
\* stio
MemoryAddress ==
    IF opc \in {Opcode.ldio, Opcode.stio}
    THEN (src + RamIndex(ram, (program_counter + 1) % 65536)) % 65536
    ELSE src

\* C33: whatever MPC and MPA hold, no step raises a software interrupt with
\* context 1, 2 or 4; ld and ldio write ram[addr] to the register slot dst and
\* leave the RAM as it was, st and stio write R[dst] to ram[addr] and leave
\* every other word of the RAM and every register as they were.
C33_NoProtectionFault ==
    [][InstructionStep
          => /\ ~(last_step'.kind = "software_interrupt" /\ last_step'.context \in {1, 2, 4})
             /\ opc \in {Opcode.ld, Opcode.ldio}
                => /\ last_step'.kind = "executed"
                   /\ registers' = [registers EXCEPT ![dst_idx] = RamIndex(ram, MemoryAddress)]
                   /\ ram' = ram
             /\ opc \in {Opcode.st, Opcode.stio}
                => /\ last_step'.kind = "executed"
                   /\ RamIndex(ram', MemoryAddress) = dst
                   /\ \A a \in ((DOMAIN ram) \cup (DOMAIN ram')) \ {MemoryAddress} :
                          RamIndex(ram', a) = RamIndex(ram, a)
                   /\ registers' = registers]_vars

\* in user mode, with every bit of MPC and MPA set, stio r2, r1, 2 stored
\* R[2] = 1 at address 65535 + 2 = 1
C33_Witness ==
    /\ steps = 2
    /\ ~privileged
    /\ last_step.kind = "executed"
    /\ last_step.opc = Opcode.stio
    /\ last_step.pc = 16
    /\ control_status_registers.mpc[0] = 65535
    /\ control_status_registers.mpa[7] = 65535
    /\ RamIndex(ram, 16) = InstructionWord(Opcode.stio, 2, 1)
    /\ RamIndex(ram, 17) = 2
    /\ registers[1] = 65535
    /\ registers[2] = 1
    /\ RamIndex(ram, 1) = 1

-----------------------------------------------------------------------------
(* Properties of the symbol table                                           *)

\* the number of UTF-16 code units of a string of code points
RECURSIVE CodeUnits(_)
CodeUnits(points) ==
    IF points = <<>> THEN 0
    ELSE (IF Head(points) > 65535 THEN 2 ELSE 1) + CodeUnits(Tail(points))

\* the depth-first walk of a sequence of codes: a block is its qualified path
\* followed by the walk of its contents, any other code is its number of words
RECURSIVE DepthFirst(_, _)
DepthFirst(codes, ctx) ==
    IF codes = <<>> THEN <<>>
    ELSE (IF Head(codes).kind = "Block"
          THEN <<[block |-> TRUE, words |-> 0,
                  path |-> IF ctx = <<>> THEN Head(codes).label.label
                           ELSE ctx \o <<46>> \o Head(codes).label.label]>>
               \o DepthFirst(Head(codes).contents,
                             IF ctx = <<>> THEN Head(codes).label.label
                             ELSE ctx \o <<46>> \o Head(codes).label.label)
          ELSE <<[block |-> FALSE, path |-> <<>>,
                  words |-> IF Head(codes).kind = "String" THEN CodeUnits(Head(codes).s)
                            ELSE IF Head(codes).kind = "ImmediateInstruction" THEN 2
                            ELSE 1]>>)
         \o DepthFirst(Tail(codes), ctx)

\* the words of the first n nodes of a walk
RECURSIVE WordsOfFirst(_, _)
WordsOfFirst(walk, n) ==
    IF n = 0 THEN 0 ELSE walk[n].words + WordsOfFirst(walk, n - 1)

\* C34: when the symbol table of a program can be built, the entry of each
\* block is the index of its segment and the number of words of the nodes in
\* front of the block in the depth-first walk of that segment, counted from 0
\* in each segment, a string being its UTF-16 code units, an instruction with
\* an immediate two words and every other node but a block one word; the table
\* has no entry but those of the blocks.
C34_SymbolOffsets ==
    (assembler = "done" /\ symbol_table(program).ok) =>
        /\ \A k \in 1..8 :
               \A n \in DOMAIN DepthFirst(program.segments[k], <<>>) :
                   DepthFirst(program.segments[k], <<>>)[n].block =>
                       /\ DepthFirst(program.segments[k], <<>>)[n].path
                              \in DOMAIN symbol_table(program).value
                       /\ symbol_table(program).value[
                              DepthFirst(program.segments[k], <<>>)[n].path].segment_index
                              = k - 1
                       /\ symbol_table(program).value[
                              DepthFirst(program.segments[k], <<>>)[n].path].segment_offset
                              = WordsOfFirst(DepthFirst(program.segments[k], <<>>), n - 1)
        /\ \A key \in DOMAIN symbol_table(program).value :
               \E k \in 1..8 :
                   \E n \in DOMAIN DepthFirst(program.segments[k], <<>>) :
                       /\ DepthFirst(program.segments[k], <<>>)[n].block
                       /\ DepthFirst(program.segments[k], <<>>)[n].path = key

\* segment 3 holds the number 7 and then an empty block a.b, segment 7 a block
\* a of a jsh and an addi with its immediate and then a block b: a.b is at
\* word 1 of segment 3, a at word 0 and b at word 3 of segment 7
C34_Witness ==
    /\ assembler = "done"
    /\ program.segments[4] = SegmentSource(4, 40)
    /\ program.segments[8] = SegmentSource(8, 80)
    /\ symbol_table(program).ok
    /\ DOMAIN symbol_table(program).value = {LabelA, LabelAB, LabelB}
    /\ symbol_table(program).value[LabelAB].segment_index = 3
    /\ symbol_table(program).value[LabelAB].segment_offset = 1
    /\ symbol_table(program).value[LabelB].segment_index = 7
    /\ symbol_table(program).value[LabelB].segment_offset = 3

-----------------------------------------------------------------------------
(* Properties of interrupt entry and return                                 *)

\* C36: under every interleaving of the two halves of try_interrupt with the
\* steps of the CPU, a step() that serves a hardware interrupt began with bit
\* 0 of IM[0] clear, so IPC and IC are not overwritten by a hardware interrupt
\* while a handler keeps the global mask set.
C36_NoInterruptWhileMasked ==
    [][(cpu = "idle" /\ cpu' = "masked")
          => control_status_registers.im[0] % 2 = 0]_vars

\* the number of words of the instruction at an address
WordsAt(address) ==
    IF ((RamIndex(ram, address) % 64) \div 8) % 2 = 1 /\ RamIndex(ram, address) % 64 # 41
    THEN 2 ELSE 1

\* C37: an interrupt entry writes no general register and no word of the RAM,
\* and a swpr that is the next instruction executed after it returns to user
\* mode at the interrupted address p for a hardware interrupt, at p + L for a
\* software interrupt raised by an instruction of L words at p, and writes no
\* general register, no word of the RAM and no CSR, so that bit 0 of IM[0] is
\* still set.
C37_InterruptRoundTrip ==
    [][/\ (StepCompleted
              /\ last_step'.kind \in {"hardware_interrupt", "software_interrupt"})
          => /\ registers' = registers
             /\ ram' = ram
             /\ privileged'
       /\ (InstructionStep /\ opc = Opcode.swpr /\ privileged
              /\ last_step.kind \in {"hardware_interrupt", "software_interrupt"})
          => /\ program_counter' =
                    IF last_step.kind = "hardware_interrupt" THEN last_step.pc
                    ELSE (last_step.pc + WordsAt(last_step.pc)) % 65536
             /\ ~privileged'
             /\ registers' = registers
             /\ ram' = ram
             /\ control_status_registers' = control_status_registers
             /\ control_status_registers'.im[0] % 2 = 1]_vars

\* a deo in user mode at 65535 raised its privilege fault, and the swpr of the
\* handler returned to address 0 in user mode with the global mask bit set
C37_Witness ==
    /\ steps = 2
    /\ last_step.kind = "jump"
    /\ last_step.opc = Opcode.swpr
    /\ last_step.pc = VectorAddress
    /\ RamIndex(ram, 65535) = InstructionWord(Opcode.deo, 2, 1)
    /\ control_status_registers.ic = 2560
    /\ control_status_registers.ipc = 0
    /\ control_status_registers.im[0] = 1
    /\ program_counter = 0
    /\ ~privileged
    /\ device_calls = <<>>

\* C38: the privileged flag goes from true to false only in a step() that
\* executes swpr in privileged mode, and from false to true only in a step()
\* that enters an interrupt, raised by a device or by the instruction; no
\* other instruction and no half of try_interrupt changes it.
C38_PrivilegeTransitions ==
    [][/\ (privileged /\ ~privileged')
          => /\ InstructionStep
             /\ opc = Opcode.swpr
             /\ last_step'.kind = "jump"
       /\ (~privileged /\ privileged')
          => /\ StepCompleted
             /\ last_step'.kind \in {"hardware_interrupt", "software_interrupt"}
       /\ (InstructionStep /\ privileged /\ opc = Opcode.swpr) => ~privileged'
       /\ (StepCompleted
              /\ last_step'.kind \in {"hardware_interrupt", "software_interrupt"})
          => privileged'
       /\ (attempts' # attempts \/ handles' # handles) => privileged' = privileged]_vars

\* device 17 raised an interrupt in front of the add at address 7: the serving
\* step() entered the handler in privileged mode and its swpr left it
C38_Witness ==
    /\ steps = 2
    /\ last_step.kind = "jump"
    /\ last_step.opc = Opcode.swpr
    /\ last_step.pc = VectorAddress
    /\ control_status_registers.ic = 21777
    /\ control_status_registers.ipc = 7
    /\ program_counter = 7
    /\ ~privileged
    /\ RamIndex(ram, 7) = InstructionWord(Opcode.add, 2, 1)

-----------------------------------------------------------------------------
(* Properties of the assembler and the emulator together                    *)

\* the instruction of the first block of segment 1
FirstCode == program.segments[2][1].contents[1]

\* C39: when step() executes the assembled instruction at address 0 and
\* neither jumps nor raises an interrupt nor panics, the program counter
\* advances by the number of words the assembler emitted for the instruction,
\* which is its Code::size, to the offset the symbol table gives the block
\* that follows it.
C39_InstructionLength ==
    [][(InstructionStep /\ assembler = "loaded" /\ program_counter = 0
            /\ last_step'.kind = "executed")
          => /\ program_counter' = size(FirstCode)
             /\ program_counter' = Len(assembled.value.segments[2].contents) - 1
             /\ program_counter' = symbol_table(program).value[LabelB].segment_offset
             /\ size(FirstCode) = IF FirstCode.kind = "ImmediateInstruction" THEN 2 ELSE 1
             /\ (FirstCode.kind = "ImmediateInstruction")
                    = (FirstCode.kind \in {"Instruction", "ImmediateInstruction"}
                       /\ (FirstCode.opcode \div 8) % 2 = 1)]_vars

\* stio r1, r2, 42 was assembled to two words and stepped over: the program
\* counter is 2, where the block b starts
C39_Witness ==
    /\ assembler = "loaded"
    /\ steps = 1
    /\ last_step.kind = "executed"
    /\ last_step.opc = Opcode.stio
    /\ last_step.pc = 0
    /\ FirstCode = ImmediateInstruction(Opcode.stio, 1, 2, ImmediateNumber(42))
    /\ assembled.value.segments[2].contents[2] = 42
    /\ program_counter = 2
    /\ symbol_table(program).value[LabelB].segment_offset = 2

-----------------------------------------------------------------------------
(* Properties of the relocation tables the assembler writes                 *)

\* C40: in the object the assembler returns for an accepted program, every
\* relocation entry of a segment has an offset inside the contents of that
\* segment, and the word at the offset is the placeholder to patch: 0 (the
\* immediate word of a two-word instruction) or a JSH word whose bits 6 to 15
\* are 0.
C40_RelocationPlaceholders ==
    (assembler # "new" /\ assembled.ok)
        => \A k \in DOMAIN assembled.value.segments :
               \A n \in DOMAIN assembled.value.segments[k].relocation_table :
                   IF assembled.value.segments[k].relocation_table[n].offset
                          < Len(assembled.value.segments[k].contents)
                   THEN assembled.value.segments[k].contents[
                            assembled.value.segments[k].relocation_table[n].offset + 1]
                            \in {0, Opcode.jsh}
                   ELSE FALSE

====
